---- MODULE Spec2Model ----
(***************************************************************************)
(* Model of the component extraction / restoration engine and the dialect  *)
(* converter of the QuillBlot editor wrapper (editorQuillBlot.js).         *)
(*                                                                         *)
(* HTML text is modelled as a sequence of tokens.  A token stands for one  *)
(* tag or one run of text; the regular expressions of the source are       *)
(* modelled by what they match on tokens:                                  *)
(*   "text"    a run of text or markup the engine does not look at         *)
(*   "table"   <table>                    "/table"  </table>               *)
(*   "div"     <div>                      "/div"    </div>                 *)
(*   "sdiv"    <div style="display:flex"> (flex, background or radius)     *)
(*   "spre"    <pre style="x">            "/pre"    </pre>                 *)
(*   "epre"    <pre style="">             "pre"     <pre>                  *)
(*   "sbq"     <blockquote style="x">     "/bq"     </blockquote>          *)
(*   "ebq"     <blockquote style="">      "bq"      <blockquote>           *)
(*   "shr"     <hr style="x">   "ehr" <hr style="">   "hr"  <hr>           *)
(*   "ph"      <div class="ql-component-placeholder" data-component-id=..  *)
(*             data-component-type=.. data-display-mode=..>                *)
(*   "missing" <!-- Missing component: id -->                              *)
(*   "badge"   <span class="component-badge">..</span>                     *)
(*   "pvopen"  <div class="component-preview">                             *)
(*   "rdopen"  <div class="component-render">                              *)
(*   "el"      a whole element <p>, <span> or <pre> of the editor's output  *)
(*             with its class attribute, inline style and dir attribute     *)
(*   "null"    alone in a string: null or undefined passed for the string   *)
(* Component ids are natural numbers; each call of generateUUID yields the *)
(* next number, which stands for a UUID not generated before.  The         *)
(* created / modified timestamps of a record are informational and are not *)
(* modelled.                                                               *)
(***************************************************************************)
EXTENDS Integers, Sequences, FiniteSets, TLC

VARIABLES
    \* ---- the editor component (EditorQuillBlot instance) ----
    quillInstance,        \* TRUE once initializeQuill has created the editor
    componentRegistry,    \* this._componentRegistry : id -> record
    defaultDisplayMode,   \* this._defaultDisplayMode
    doc,                  \* quillInstance.root.innerHTML, as tokens
    nextId,               \* number of UUIDs generated so far, plus one
    refreshTimers,        \* setTimeout(refreshAllBlotDisplays, 0) not yet run
    lastOp,               \* the last API call and its argument
    ret,                  \* the string the last getContent returned
    ops,                  \* number of API calls made so far
    \* ---- the engine's functions applied to an input string ----
    eIn,                  \* the input html
    eReg,                 \* the registry
    eOut,                 \* the html returned by the last function applied
    eNew,                 \* newComponents of the last extraction
    eNext,                \* the next UUID
    ePrev,                \* html and registry before the last function
    ePc,                  \* which functions have been applied
    \* ---- convertIndentedLists on one flat list ----
    levels,               \* levels[i]: the N of item i's ql-indent-N class
                          \* in the input (0: no indent class)
    classes,              \* classes[i]: the indent class item i carries now
    idx,                  \* index of the next item of items.forEach
    currentLevel,
    currentParent,        \* a list: 0 is the original list
    parentStack,          \* sequence of [element, level]
    kids,                 \* kids[l]: the li children of list l, in order
    subs,                 \* subs[i]: the lists appended inside item i
    host,                 \* host[l]: the item list l was appended to
    threw,                \* TRUE once appendChild has thrown
    \* ---- extractStyledDivs step by step (result is eOut) ----
    changed,
    loopStart,            \* startIndex: match.index, as a token index
    loopPos,              \* pos: index of the first token of `remaining'
    loopDepth,            \* depth
    passes,               \* passes of the outer loop begun so far
    \* ---- the event log (EventLogPanel instance) ----
    events,               \* this.events: the N of each 'evt-N', first to last
    eventIdCounter,
    \* ---- the Quill wrapper (EditorQuill instance) ----
    editorQuill,          \* its fields and its editor surface
    pendingCall,          \* the latest setContent made before the instance
    \* ---- the evaluator (RichTextEvaluator instance) and its editors ----
    recordValue,          \* Content__c of the record on the server
    recordContent,        \* this._recordContent
    contentPushedToEditors,
    hasRendered,
    pushTimers,           \* setTimeout(pushContentToAllEditors, 100) pending
    emissions,            \* number of emissions of the record wire so far
    pushCalls,            \* calls of pushContentToAllEditors: how many ran
                          \* its body and how many returned at its guard
    editors               \* the three editor components of the template

editorVars == <<quillInstance, componentRegistry, defaultDisplayMode, doc,
                nextId, refreshTimers, lastOp, ret, ops>>
engineVars == <<eIn, eReg, eOut, eNew, eNext, ePrev, ePc>>
listVars == <<levels, classes, idx, currentLevel, currentParent, parentStack, kids,
              subs, host, threw>>
loopVars == <<changed, loopStart, loopPos, loopDepth, passes>>
logVars == <<events, eventIdCounter>>
wrapperVars == <<editorQuill, pendingCall>>
evaluatorVars == <<recordValue, recordContent, contentPushedToEditors,
                   hasRendered, pushTimers, emissions, pushCalls, editors>>
\* the parts that the editor, engine and list actions never touch
pageVars == <<loopVars, logVars, wrapperVars, evaluatorVars>>
vars == <<editorVars, engineVars, listVars, pageVars>>

----------------------------------------------------------------------------
(* Bounds *)

MaxLen == 4         \* longest input string enumerated exhaustively
MaxItems == 4       \* most items of a list
MaxIndent == 2      \* largest ql-indent-N
MaxOps == 3         \* most API calls in one run of the editor
MaxTimers == 2      \* most refresh timers pending at once
MaxClasses == 3     \* most class tokens on one element
MaxDivLen == 5      \* longest input of the styled-div loop
MaxLogged == 502    \* most events logged in one run
MaxEmissions == 3   \* most emissions of the record wire

----------------------------------------------------------------------------
(* Tokens *)

Tok(k) == [k |-> k, id |-> 0, ty |-> "", dm |-> ""]

Doc(kinds) == [i \in DOMAIN kinds |-> Tok(kinds[i])]

PhOpen(id, ty, dm) == [k |-> "ph", id |-> id, ty |-> ty, dm |-> dm]

\* The placeholder string written by extraction: the opening tag and </div>.
PlaceholderHtml(id, ty, dm) == <<PhOpen(id, ty, dm), Tok("/div")>>

MissingComment(id) == [k |-> "missing", id |-> id, ty |-> "", dm |-> ""]

\* null or undefined passed where an html string is expected
NullHtml == <<Tok("null")>>

\* !html : the empty string, null and undefined
FalsyEmptyStringOnly(html) == html = <<>>

Falsy(html) == html = <<>> \/ html = NullHtml

EmptyRegistry == <<>>

\* lastOp: the call, its argument (the html, componentData, or the display
\* mode and preview), the id it is about, and whether it went past its guard
\* (updateComponentDisplay: what it returned)
NoOp == [op |-> "none", arg |-> <<>>, id |-> 0, ok |-> TRUE]

Call(op, arg, id, ok) == [op |-> op, arg |-> arg, id |-> id, ok |-> ok]

Min(S) == CHOOSE x \in S : \A y \in S : x <= y

\* The editors of the evaluator's template, by their EDITOR_NAME.
Editors == {"Standard", "Quill", "QuillBlot"}

\* An editor component as constructed.  quillInstance: the Quill instance
\* exists (Standard: _isReady); root: what the editor surface holds;
\* connected: the component is in the page, where querySelector finds it;
\* container: its template has rendered; dropped: a setContent returned
\* without keeping or showing its html.
NewEditor ==
    [quillInstance |-> FALSE, pendingContent |-> NullHtml,
     scriptsLoaded |-> FALSE, initAttempted |-> FALSE, isLoaded |-> FALSE,
     root |-> <<>>, connected |-> FALSE, container |-> FALSE,
     dropped |-> FALSE]

\* pendingCall: whether setContent was called before the instance existed,
\* the html of the latest such call and that of the first one
NoCall == [made |-> FALSE, h |-> NullHtml, first |-> NullHtml]

NoCalls == [ran |-> 0, returned |-> 0]

\* Index of the first token of s at or after p whose kind is in kinds, or 0.
FirstOf(s, p, kinds) ==
    LET S == {i \in p..Len(s) : s[i].k \in kinds}
    IN  IF S = {} THEN 0 ELSE Min(S)

\* STYLED_DIV_START_PATTERN
StyledDivStartKinds == {"sdiv"}
\* /<div[\s>]/i : every opening div tag, the placeholder's included
DivOpenKinds == {"div", "sdiv", "ph", "pvopen", "rdopen"}
\* /<\/div>/i
DivCloseKinds == {"/div"}
\* STYLED_PRE_PATTERN, BLOCKQUOTE_PATTERN, HR_PATTERN: style="[^"]*" also
\* matches an empty style value
StyledPreKinds == {"spre", "epre"}
StyledBlockquoteKinds == {"sbq", "ebq"}
StyledHrKinds == {"shr", "ehr"}
TableKinds == {"table"}

Component(type, html, mode) ==
    [type |-> type, html |-> html, preview |-> html, displayMode |-> mode]

\* The state threaded through one extraction: the working html, the
\* registry, newComponents and the next UUID.
RegisterNewOnly(st, type, match, mode) ==
    [st EXCEPT !.new = (st.next :> Component(type, match, mode)) @@ @,
               !.next = @ + 1]

RegisterSameId(st, type, match, mode) ==
    [st EXCEPT !.reg = (st.next :> Component(type, match, mode)) @@ @,
               !.new = (st.next :> Component(type, match, mode)) @@ @]

Register(st, type, match, mode) ==
    [st EXCEPT !.reg = (st.next :> Component(type, match, mode)) @@ @,
               !.new = (st.next :> Component(type, match, mode)) @@ @,
               !.next = @ + 1]

----------------------------------------------------------------------------
(* extractStyledDivs *)

\* The inner while loop: from position pos at depth depth, the index of the
\* closing tag that brings the depth to 0, or 0 when the loop ends without.
DepthScanFirstClose(result, pos, depth) == FirstOf(result, pos, DivCloseKinds)

RECURSIVE DepthScan(_, _, _)
DepthScan(result, pos, depth) ==
    IF pos > Len(result) THEN 0
    ELSE LET openIdx == FirstOf(result, pos, DivOpenKinds)
             closeIdx == FirstOf(result, pos, DivCloseKinds)
         IN  IF closeIdx = 0 THEN 0
             ELSE IF openIdx # 0 /\ openIdx < closeIdx
                  THEN DepthScan(result, openIdx + 1, depth + 1)
                  ELSE IF depth = 1 THEN closeIdx
                       ELSE DepthScan(result, closeIdx + 1, depth - 1)

RECURSIVE ExtractStyledDivsLoop(_, _)
ExtractStyledDivsLoop(st, mode) ==
    LET startIndex == FirstOf(st.html, 1, StyledDivStartKinds)
    IN  IF startIndex = 0 THEN st
        ELSE LET endPos == DepthScan(st.html, startIndex + 1, 1)
             IN  IF endPos = 0 THEN st
                 ELSE LET fullDiv == SubSeq(st.html, startIndex, endPos)
                          placed ==
                              SubSeq(st.html, 1, startIndex - 1)
                              \o PlaceholderHtml(st.next, "STYLED_DIV", mode)
                              \o SubSeq(st.html, endPos + 1, Len(st.html))
                          reg == Register(st, "STYLED_DIV", fullDiv, mode)
                      IN  ExtractStyledDivsLoop(
                              [reg EXCEPT !.html = placed], mode)

ExtractStyledDivs(st, mode) == ExtractStyledDivsLoop(st, mode)

----------------------------------------------------------------------------
(* String.prototype.replace with one of the global patterns *)

\* s is the text not yet scanned; st.html the output built so far.  A match
\* starts at the first opening tag that has a closing tag after it and ends at
\* the first such closing tag (closeKinds = {} : the tag is self-closing).
ReplacePatternToEnd(s, st, mode, openKinds, closeKinds, type) ==
    LET i == FirstOf(s, 1, openKinds)
    IN  IF i = 0 THEN [st EXCEPT !.html = @ \o s]
        ELSE LET reg == Register(st, type, SubSeq(s, i, Len(s)), mode)
             IN  [reg EXCEPT !.html = st.html \o SubSeq(s, 1, i - 1)
                                      \o PlaceholderHtml(st.next, type, mode)]

RECURSIVE ReplacePattern(_, _, _, _, _, _)
ReplacePattern(s, st, mode, openKinds, closeKinds, type) ==
    LET i == FirstOf(s, 1, openKinds)
        j == IF i = 0 THEN 0
             ELSE IF closeKinds = {} THEN i
             ELSE FirstOf(s, i + 1, closeKinds)
    IN  IF j = 0 THEN [st EXCEPT !.html = @ \o s]
        ELSE LET reg == Register(st, type, SubSeq(s, i, j), mode)
                 out == st.html \o SubSeq(s, 1, i - 1)
                        \o PlaceholderHtml(st.next, type, mode)
             IN  ReplacePattern(SubSeq(s, j + 1, Len(s)),
                                [reg EXCEPT !.html = out],
                                mode, openKinds, closeKinds, type)

Replace(st, mode, openKinds, closeKinds, type) ==
    ReplacePattern(st.html, [st EXCEPT !.html = <<>>], mode,
                   openKinds, closeKinds, type)

----------------------------------------------------------------------------
(* extractComponents *)

ExtractComponentsTablesFirst(html, registry, next, mode) ==
    IF Falsy(html)
    THEN [html |-> <<>>, reg |-> registry, new |-> EmptyRegistry, next |-> next]
    ELSE LET s0 == [html |-> html, reg |-> registry, new |-> EmptyRegistry,
                    next |-> next]
             s1 == Replace(s0, mode, TableKinds, {"/table"}, "TABLE")
             s2 == Replace(s1, mode, StyledHrKinds, {}, "HR")
             s3 == Replace(s2, mode, StyledPreKinds, {"/pre"}, "CODE_BLOCK")
             s4 == Replace(s3, mode, StyledBlockquoteKinds, {"/bq"}, "BLOCKQUOTE")
             s5 == ExtractStyledDivs(s4, mode)
         IN  s5

ExtractComponents(html, registry, next, mode) ==
    IF Falsy(html)
    THEN [html |-> <<>>, reg |-> registry, new |-> EmptyRegistry, next |-> next]
    ELSE LET s0 == [html |-> html, reg |-> registry, new |-> EmptyRegistry,
                    next |-> next]
             s1 == ExtractStyledDivs(s0, mode)
             s2 == Replace(s1, mode, StyledPreKinds, {"/pre"}, "CODE_BLOCK")
             s3 == Replace(s2, mode, StyledBlockquoteKinds, {"/bq"}, "BLOCKQUOTE")
             s4 == Replace(s3, mode, TableKinds, {"/table"}, "TABLE")
             s5 == Replace(s4, mode, StyledHrKinds, {}, "HR")
         IN  s5

----------------------------------------------------------------------------
(* restoreComponents *)

\* The replace callback: the record's html, or the missing-component comment.
SubstituteDropMissing(id, registry) ==
    IF id \in DOMAIN registry THEN registry[id].html ELSE <<>>

Substitute(id, registry) ==
    IF id \in DOMAIN registry
    THEN registry[id].html
    ELSE <<MissingComment(id)>>

\* blotPattern: a placeholder opening tag, then lazily up to the first </div>.
RECURSIVE RestoreFrom(_, _)
RestoreFrom(s, registry) ==
    LET i == FirstOf(s, 1, {"ph"})
        j == IF i = 0 THEN 0 ELSE FirstOf(s, i + 1, DivCloseKinds)
    IN  IF j = 0 THEN s
        ELSE SubSeq(s, 1, i - 1)
             \o Substitute(s[i].id, registry)
             \o RestoreFrom(SubSeq(s, j + 1, Len(s)), registry)

RestoreComponents(html, registry) ==
    IF Falsy(html) THEN <<>> ELSE RestoreFrom(html, registry)

----------------------------------------------------------------------------
(* convertToStandardHtml.  The element tokens stand for what Quill writes:   *)
(* an element with a class attribute, on which the converters work; all      *)
(* other tokens carry no class.  Lists are converted in the list model       *)
(* below; the strings of this model hold none, so convertIndentedLists finds *)
(* no list in them.                                                          *)

NoStyle == [textAlign |-> "", fontFamily |-> "", fontSize |-> "",
            codeBlock |-> FALSE]

\* <tag class="..."> as Quill writes it: no inline style, no dir attribute;
\* an empty classList is an element without a class attribute.
Element(tag, classList) ==
    [k |-> "el", tag |-> tag, classAttr |-> classList # {},
     classList |-> classList, style |-> NoStyle, dir |-> ""]

alignmentMap ==
    << <<"ql-align-center", "center">>, <<"ql-align-right", "right">>,
       <<"ql-align-justify", "justify">> >>

fontMap ==
    << <<"ql-font-serif", "Georgia, Times New Roman, serif">>,
       <<"ql-font-monospace", "Monaco, Courier New, monospace">> >>

sizeMap ==
    << <<"ql-size-small", "0.75em">>, <<"ql-size-large", "1.5em">>,
       <<"ql-size-huge", "2.5em">> >>

\* Object.entries(map).forEach(([className, value]) =>
\*     querySelectorAll('.' + className).forEach(el => {
\*         el.style[prop] = value; el.classList.remove(className); }))
\* as it acts on one element.  classList.remove leaves the class attribute
\* in place, with the remaining tokens (none: class="").
RECURSIVE ApplyClassMap(_, _, _)
ApplyClassMap(el, map, prop) ==
    IF map = <<>> THEN el
    ELSE LET className == Head(map)[1]
             value == Head(map)[2]
             next == IF className \in el.classList
                     THEN [el EXCEPT !.style = [@ EXCEPT ![prop] = value],
                                     !.classList = @ \ {className}]
                     ELSE el
         IN  ApplyClassMap(next, Tail(map), prop)

convertAlignmentClasses(el) == ApplyClassMap(el, alignmentMap, "textAlign")

convertFontClasses(el) == ApplyClassMap(el, fontMap, "fontFamily")

convertSizeClassesNoHuge(el) ==
    ApplyClassMap(el, SubSeq(sizeMap, 1, 2), "fontSize")

convertSizeClasses(el) == ApplyClassMap(el, sizeMap, "fontSize")

convertDirectionClasses(el) ==
    IF "ql-direction-rtl" \in el.classList
    THEN [el EXCEPT !.dir = "rtl", !.classList = @ \ {"ql-direction-rtl"}]
    ELSE el

\* querySelectorAll('pre.ql-syntax'): the fixed style also sets fontFamily
\* and fontSize
convertCodeBlocks(el) ==
    IF el.tag = "pre" /\ "ql-syntax" \in el.classList
    THEN [el EXCEPT
            !.style = [@ EXCEPT
                         !.codeBlock = TRUE,
                         !.fontFamily =
                             "Monaco, Consolas, \"Courier New\", monospace",
                         !.fontSize = "13px"],
            !.classList = @ \ {"ql-syntax"}]
    ELSE el

\* The class tokens of the model that start with "ql-".
QuillClasses ==
    {"ql-align-center", "ql-align-right", "ql-align-justify",
     "ql-font-serif", "ql-font-monospace", "ql-font-comic",
     "ql-size-small", "ql-size-large", "ql-size-huge", "ql-size-tiny",
     "ql-direction-rtl", "ql-syntax"}

\* cls.startsWith('ql-')
StartsWithQl(cls) == cls \in QuillClasses

\* The classes the converters above look for.
RecognisedClasses == QuillClasses \ {"ql-font-comic", "ql-size-tiny"}

removeQuillClassesKnownOnly(el) ==
    IF el.classAttr /\ \E cls \in el.classList : StartsWithQl(cls)
    THEN LET classList == el.classList \ RecognisedClasses
         IN  [el EXCEPT !.classList = classList,
                        !.classAttr = classList # {}]
    ELSE el

\* querySelectorAll('[class*="ql-"]') : the elements whose class attribute
\* still holds a ql- token
removeQuillClasses(el) ==
    IF el.classAttr /\ \E cls \in el.classList : StartsWithQl(cls)
    THEN LET classList == {cls \in el.classList : ~StartsWithQl(cls)}
         IN  [el EXCEPT !.classList = classList,
                        !.classAttr = classList # {}]
    ELSE el

\* The converters of convertToStandardHtml in their order, on one element.
ConvertElement(el) ==
    removeQuillClasses(
        convertCodeBlocks(
            convertDirectionClasses(
                convertSizeClasses(
                    convertFontClasses(
                        convertAlignmentClasses(el))))))

\* The end tag that closes the element a tag of kind k opens ("": none).
CloserOf(k) ==
    CASE k \in DivOpenKinds -> "/div"
      [] k \in {"spre", "epre", "pre"} -> "/pre"
      [] k \in {"sbq", "ebq", "bq"} -> "/bq"
      [] k = "table" -> "/table"
      [] OTHER -> ""

EndTags(open) == [i \in DOMAIN open |-> Tok(open[i])]

\* temp.innerHTML = html; ... temp.innerHTML : the string is parsed into a
\* tree and written out again.  An end tag closes the nearest open element of
\* its kind and the elements opened inside it; an end tag with no such open
\* element, or with an open table in between, is dropped; what is still open
\* at the end is closed.  (Markup inside a table is taken to be in a cell.)
RECURSIVE InnerHTMLFrom(_, _)
InnerHTMLFrom(s, open) ==
    IF s = <<>> THEN EndTags(open)
    ELSE LET t == Head(s)
             p == FirstOf(EndTags(open), 1, {t.k})
             q == FirstOf(EndTags(open), 1, {"/table"})
         IN  IF CloserOf(t.k) # ""
             THEN <<t>> \o InnerHTMLFrom(Tail(s), <<CloserOf(t.k)>> \o open)
             ELSE IF t.k \in {"/div", "/pre", "/bq", "/table"}
             THEN IF p = 0 \/ (q # 0 /\ q < p)
                  THEN InnerHTMLFrom(Tail(s), open)
                  ELSE EndTags(SubSeq(open, 1, p))
                       \o InnerHTMLFrom(Tail(s), SubSeq(open, p + 1, Len(open)))
             ELSE <<t>> \o InnerHTMLFrom(Tail(s), open)

InnerHTML(html) == InnerHTMLFrom(html, <<>>)

ConvertToStandardHtml(html) ==
    IF Falsy(html)
    THEN <<>>
    ELSE LET temp == InnerHTML(html)
         IN  [i \in DOMAIN temp |->
                 IF temp[i].k = "el" THEN ConvertElement(temp[i]) ELSE temp[i]]

----------------------------------------------------------------------------
(* The engine's functions applied to input strings *)

\* Ids of placeholders that may already be written in an input string; the
\* UUIDs generated later differ from them.
StaleIds == {1}
FirstFreshId == Cardinality(StaleIds) + 1

EngineAlphabet ==
    {Tok(k) : k \in {"text", "table", "/table", "div", "sdiv", "/div",
                     "spre", "/pre", "sbq", "/bq", "shr"}}
    \cup {PhOpen(i, "TABLE", "preview") : i \in StaleIds}

\* Longer documents: the depth example, nested styled divs, sibling tables,
\* a styled pre inside a table, a table whose cell leaves a div open, an
\* unterminated styled div before a complete one, and hr, blockquote and pre
\* elements with an empty style attribute and with none.
Samples ==
    { Doc(<<"sdiv", "div", "text", "/div", "div", "text", "/div", "/div">>),
      Doc(<<"sdiv", "sdiv", "text", "/div", "div", "/div", "/div">>),
      Doc(<<"table", "text", "/table", "table", "text", "/table">>),
      Doc(<<"table", "spre", "text", "/pre", "/table">>),
      Doc(<<"div", "table", "sbq", "text", "/bq", "/table", "/div">>),
      Doc(<<"sdiv", "table", "div", "/table", "/div">>),
      Doc(<<"sdiv", "text", "text", "sdiv", "table", "/table", "/div">>),
      Doc(<<"text", "ehr", "hr">>),
      Doc(<<"ebq", "text", "/bq", "bq", "text", "/bq">>),
      Doc(<<"epre", "text", "/pre", "pre", "text", "/pre">>) }

EngineRegistries ==
    { EmptyRegistry,
      (1 :> Component("TABLE", Doc(<<"table", "text", "/table">>), "preview")) }

EngineInit ==
    /\ \/ \E m \in 0..MaxLen : eIn \in [1..m -> EngineAlphabet]
       \/ eIn \in Samples
    /\ eReg \in EngineRegistries
    /\ eOut = eIn
    /\ eNew = EmptyRegistry
    /\ eNext = FirstFreshId
    /\ ePrev = [html |-> <<>>, reg |-> EmptyRegistry]
    /\ ePc = "input"
    /\ quillInstance = FALSE
    /\ componentRegistry = EmptyRegistry
    /\ defaultDisplayMode = "preview"
    /\ doc = <<>>
    /\ nextId = 1
    /\ refreshTimers = 0
    /\ lastOp = NoOp
    /\ ret = <<>>
    /\ ops = 0
    /\ levels = <<>>
    /\ classes = <<>>
    /\ idx = 1
    /\ currentLevel = 0
    /\ currentParent = 0
    /\ parentStack = <<>>
    /\ kids = <<>>
    /\ subs = <<>>
    /\ host = <<>>
    /\ threw = FALSE
    /\ changed = TRUE
    /\ loopStart = 0
    /\ loopPos = 0
    /\ loopDepth = 0
    /\ passes = 0
    /\ events = <<>>
    /\ eventIdCounter = 0
    /\ editorQuill = NewEditor
    /\ pendingCall = NoCall
    /\ recordValue = <<>>
    /\ recordContent = <<>>
    /\ contentPushedToEditors = FALSE
    /\ hasRendered = FALSE
    /\ pushTimers = 0
    /\ emissions = 0
    /\ pushCalls = NoCalls
    /\ editors = [e \in Editors |-> NewEditor]

\* extractComponents(eIn)
EngExtract ==
    /\ ePc = "input"
    /\ LET r == ExtractComponents(eIn, eReg, eNext, defaultDisplayMode)
       IN  /\ eOut' = r.html
           /\ eReg' = r.reg
           /\ eNew' = r.new
           /\ eNext' = r.next
    /\ ePrev' = [html |-> eOut, reg |-> eReg]
    /\ ePc' = "extracted"
    /\ UNCHANGED eIn
    /\ UNCHANGED <<editorVars, listVars, pageVars>>

\* extractComponents applied to the output of extractComponents
EngExtractAgain ==
    /\ ePc = "extracted"
    /\ LET r == ExtractComponents(eOut, eReg, eNext, defaultDisplayMode)
       IN  /\ eOut' = r.html
           /\ eReg' = r.reg
           /\ eNew' = r.new
           /\ eNext' = r.next
    /\ ePrev' = [html |-> eOut, reg |-> eReg]
    /\ ePc' = "extractedTwice"
    /\ UNCHANGED eIn
    /\ UNCHANGED <<editorVars, listVars, pageVars>>

\* restoreComponents applied to the output of extractComponents
EngRestore ==
    /\ ePc = "extracted"
    /\ eOut' = RestoreComponents(eOut, eReg)
    /\ ePrev' = [html |-> eOut, reg |-> eReg]
    /\ ePc' = "restored"
    /\ UNCHANGED <<eIn, eReg, eNew, eNext>>
    /\ UNCHANGED <<editorVars, listVars, pageVars>>

\* restoreComponents applied to the input itself
EngRestoreInput ==
    /\ ePc = "input"
    /\ eOut' = RestoreComponents(eIn, eReg)
    /\ ePrev' = [html |-> eOut, reg |-> eReg]
    /\ ePc' = "restoredInput"
    /\ UNCHANGED <<eIn, eReg, eNew, eNext>>
    /\ UNCHANGED <<editorVars, listVars, pageVars>>

EngineNext ==
    \/ EngExtract
    \/ EngExtractAgain
    \/ EngRestore
    \/ EngRestoreInput

----------------------------------------------------------------------------
(* convertToStandardHtml, extractComponents and the body of                  *)
(* getConvertedContent applied to editor output and to empty input           *)

\* The class tokens an element may carry: Quill's, two variants the lookup
\* tables do not hold, and a class that is not Quill's.
ClassAlphabet == QuillClasses \cup {"note"}

Tags == {"p", "span", "pre"}

Elements ==
    {Element(tag, classList) :
        tag \in Tags,
        classList \in {c \in SUBSET ClassAlphabet : Cardinality(c) <= MaxClasses}}

\* Editor output with text, several elements and a placeholder.
ConvertSamples ==
    { <<>>,
      NullHtml,
      <<Element("p", {"ql-align-center"}), Tok("text"),
        Element("span", {"ql-size-huge"})>>,
      <<Tok("text"), PhOpen(1, "TABLE", "preview"), Tok("/div"),
        Element("p", {"ql-direction-rtl", "note"})>> }

ConvertInit ==
    /\ \/ \E el \in Elements : eIn = <<el>>
       \/ eIn \in ConvertSamples
    /\ eReg \in EngineRegistries
    /\ eOut = eIn
    /\ eNew = EmptyRegistry
    /\ eNext = FirstFreshId
    /\ ePrev = [html |-> <<>>, reg |-> EmptyRegistry]
    /\ ePc = "given"
    /\ quillInstance = FALSE
    /\ componentRegistry = EmptyRegistry
    /\ defaultDisplayMode = "preview"
    /\ doc = <<>>
    /\ nextId = 1
    /\ refreshTimers = 0
    /\ lastOp = NoOp
    /\ ret = <<>>
    /\ ops = 0
    /\ levels = <<>>
    /\ classes = <<>>
    /\ idx = 1
    /\ currentLevel = 0
    /\ currentParent = 0
    /\ parentStack = <<>>
    /\ kids = <<>>
    /\ subs = <<>>
    /\ host = <<>>
    /\ threw = FALSE
    /\ changed = TRUE
    /\ loopStart = 0
    /\ loopPos = 0
    /\ loopDepth = 0
    /\ passes = 0
    /\ events = <<>>
    /\ eventIdCounter = 0
    /\ editorQuill = NewEditor
    /\ pendingCall = NoCall
    /\ recordValue = <<>>
    /\ recordContent = <<>>
    /\ contentPushedToEditors = FALSE
    /\ hasRendered = FALSE
    /\ pushTimers = 0
    /\ emissions = 0
    /\ pushCalls = NoCalls
    /\ editors = [e \in Editors |-> NewEditor]

\* convertToStandardHtml(eIn)
ConvertGiven ==
    /\ ePc = "given"
    /\ eOut' = ConvertToStandardHtml(eIn)
    /\ ePrev' = [html |-> eOut, reg |-> eReg]
    /\ ePc' = "converted"
    /\ UNCHANGED <<eIn, eReg, eNew, eNext>>
    /\ UNCHANGED <<editorVars, listVars, pageVars>>

\* extractComponents(eIn)
ExtractGiven ==
    /\ ePc = "given"
    /\ LET r == ExtractComponents(eIn, eReg, eNext, defaultDisplayMode)
       IN  /\ eOut' = r.html
           /\ eReg' = r.reg
           /\ eNew' = r.new
           /\ eNext' = r.next
    /\ ePrev' = [html |-> eOut, reg |-> eReg]
    /\ ePc' = "extractedGiven"
    /\ UNCHANGED eIn
    /\ UNCHANGED <<editorVars, listVars, pageVars>>

\* the body of getConvertedContent with root.innerHTML = eIn (a string)
GetConvertedGiven ==
    /\ ePc = "given"
    /\ eIn # NullHtml
    /\ eOut' = ConvertToStandardHtml(RestoreComponents(eIn, eReg))
    /\ ePrev' = [html |-> eOut, reg |-> eReg]
    /\ ePc' = "gotConverted"
    /\ UNCHANGED <<eIn, eReg, eNew, eNext>>
    /\ UNCHANGED <<editorVars, listVars, pageVars>>

ConvertNext ==
    \/ ConvertGiven
    \/ ExtractGiven
    \/ GetConvertedGiven

----------------------------------------------------------------------------
(* convertIndentedLists on one flat list <ul><li>..</li>..</ul>.  Items are   *)
(* numbered in document order; list 0 is the original list and the lists     *)
(* created by document.createElement are numbered in creation order.         *)

ListInit ==
    /\ \E n \in 1..MaxItems : levels \in [1..n -> 0..MaxIndent]
    /\ classes = levels
    /\ idx = 1
    /\ currentLevel = 0
    /\ currentParent = 0
    /\ parentStack = <<[element |-> 0, level |-> 0]>>
    /\ kids = (0 :> [i \in DOMAIN levels |-> i])
    /\ subs = [i \in DOMAIN levels |-> <<>>]
    /\ host = <<>>
    /\ threw = FALSE
    /\ quillInstance = FALSE
    /\ componentRegistry = EmptyRegistry
    /\ defaultDisplayMode = "preview"
    /\ doc = <<>>
    /\ nextId = 1
    /\ refreshTimers = 0
    /\ lastOp = NoOp
    /\ ret = <<>>
    /\ ops = 0
    /\ eIn = <<>>
    /\ eReg = EmptyRegistry
    /\ eOut = <<>>
    /\ eNew = EmptyRegistry
    /\ eNext = 1
    /\ ePrev = [html |-> <<>>, reg |-> EmptyRegistry]
    /\ ePc = "idle"
    /\ changed = TRUE
    /\ loopStart = 0
    /\ loopPos = 0
    /\ loopDepth = 0
    /\ passes = 0
    /\ events = <<>>
    /\ eventIdCounter = 0
    /\ editorQuill = NewEditor
    /\ pendingCall = NoCall
    /\ recordValue = <<>>
    /\ recordContent = <<>>
    /\ contentPushedToEditors = FALSE
    /\ hasRendered = FALSE
    /\ pushTimers = 0
    /\ emissions = 0
    /\ pushCalls = NoCalls
    /\ editors = [e \in Editors |-> NewEditor]

Last(s) == s[Len(s)]

\* item.parentElement: the list that holds item in tree k
ParentElement(k, item) ==
    CHOOSE l \in DOMAIN k : \E j \in DOMAIN k[l] : k[l][j] = item

\* The items that contain list l (its inclusive li ancestors) in tree t.
RECURSIVE AncestorItems(_, _)
AncestorItems(t, l) ==
    IF l = 0 THEN {}
    ELSE {t.host[l]} \cup AncestorItems(t, ParentElement(t.kids, t.host[l]))

Without(s, x) == SelectSeq(s, LAMBDA y : y # x)

\* for (let i = currentLevel; i < itemLevel; i++) { ... } on the tree
\* t = [cp, stack, kids, subs, host]
\* currentParent.lastElementChild (the lists of the model hold only items)
LastElementChild(t) == Last(t.kids[t.cp])

RECURSIVE Descend(_, _, _)
Descend(t, i, itemLevel) ==
    IF i >= itemLevel THEN t
    ELSE LET newList == Cardinality(DOMAIN t.host) + 1
         IN  IF t.kids[t.cp] = <<>>
             THEN Descend(t, i + 1, itemLevel)
             ELSE LET lastItem == LastElementChild(t)
                  IN  Descend(
                        [cp |-> newList,
                         stack |-> Append(t.stack,
                                     [element |-> newList, level |-> i + 1]),
                         kids |-> t.kids @@ (newList :> <<>>),
                         subs |-> [t.subs EXCEPT ![lastItem] =
                                      Append(@, newList)],
                         host |-> t.host @@ (newList :> lastItem)],
                        i + 1, itemLevel)

\* while (parentStack.length > 1 && top.level > itemLevel) parentStack.pop()
RECURSIVE PopTo(_, _)
PopTo(stack, itemLevel) ==
    IF Len(stack) > 1 /\ Last(stack).level > itemLevel
    THEN PopTo(SubSeq(stack, 1, Len(stack) - 1), itemLevel)
    ELSE stack

\* The body of items.forEach for the item at idx.
ConvertItem ==
    /\ idx <= Len(levels)
    /\ ~threw
    /\ LET item == idx
           itemLevel == levels[idx]
           t0 == [cp |-> currentParent, stack |-> parentStack, kids |-> kids,
                  subs |-> subs, host |-> host]
           t1 == IF itemLevel > currentLevel
                 THEN Descend(t0, currentLevel, itemLevel)
                 ELSE IF itemLevel < currentLevel
                 THEN LET st == PopTo(parentStack, itemLevel)
                      IN  [t0 EXCEPT !.stack = st, !.cp = Last(st).element]
                 ELSE t0
           from == ParentElement(t1.kids, item)
       IN  /\ classes' = [classes EXCEPT ![idx] = 0]
           /\ currentLevel' = itemLevel
           /\ currentParent' = t1.cp
           /\ parentStack' = t1.stack
           /\ subs' = t1.subs
           /\ host' = t1.host
           /\ IF from = t1.cp
              THEN /\ kids' = t1.kids
                   /\ threw' = FALSE
                   /\ idx' = idx + 1
              ELSE IF item \in AncestorItems(t1, t1.cp)
              THEN \* appendChild: HierarchyRequestError, forEach is left
                   /\ kids' = t1.kids
                   /\ threw' = TRUE
                   /\ idx' = idx
              ELSE /\ kids' = [t1.kids EXCEPT
                                  ![from] = Without(@, item),
                                  ![t1.cp] = Append(@, item)]
                   /\ threw' = FALSE
                   /\ idx' = idx + 1
    /\ UNCHANGED levels
    /\ UNCHANGED <<editorVars, engineVars, pageVars>>

ListNext == ConvertItem

----------------------------------------------------------------------------
(* The live editor surface.  quillInstance.root.innerHTML is a token string  *)
(* with balanced div tags: it is the serialisation of a DOM tree.            *)

Modes == {"badge", "render", "preview"}

Badge(id, ty) == [k |-> "badge", id |-> id, ty |-> ty, dm |-> ""]

\* What create and refreshBlotDisplay put inside the placeholder node.
PlaceholderContent(id, ty, dm, preview, html) ==
    IF dm = "preview" /\ preview # <<>>
    THEN <<Tok("pvopen")>> \o preview \o <<Tok("/div")>>
    ELSE IF dm = "render" /\ html # <<>>
    THEN <<Tok("rdopen")>> \o html \o <<Tok("/div")>>
    ELSE <<Badge(id, ty)>>

\* ComponentPlaceholder.create(value), serialised; an absent displayMode,
\* preview or html is "" or <<>>.
CreateBlot(id, ty, dm, preview, html) ==
    LET displayMode == IF dm = "" THEN "badge" ELSE dm
    IN  <<PhOpen(id, ty, displayMode)>>
        \o PlaceholderContent(id, ty, displayMode, preview, html)
        \o <<Tok("/div")>>

\* clipboard.dangerouslyPasteHTML: a placeholder div becomes a blot made by
\* create(value(node)), so without preview and html; text is kept; Quill has
\* no format for any other tag of the model and drops it.
RECURSIVE QuillPaste(_)
QuillPaste(s) ==
    IF s = <<>> THEN <<>>
    ELSE IF Head(s).k = "ph" /\ Len(s) >= 2 /\ s[2].k = "/div"
    THEN CreateBlot(s[1].id, s[1].ty, s[1].dm, <<>>, <<>>)
         \o QuillPaste(SubSeq(s, 3, Len(s)))
    ELSE IF Head(s).k = "text" THEN <<Head(s)>> \o QuillPaste(Tail(s))
    ELSE QuillPaste(Tail(s))

\* root.querySelector('.ql-component-placeholder[data-component-id="id"]'):
\* the index of the first such opening tag, or 0.
QuerySelector(d, id) ==
    LET S == {i \in DOMAIN d : d[i].k = "ph" /\ d[i].id = id}
    IN  IF S = {} THEN 0 ELSE Min(S)

\* The index of the closing tag of the element that opens at i.
ElementEnd(d, i) == DepthScan(d, i + 1, 1)

RefreshBlotDisplay(d, registry, dflt, id) ==
    LET i == QuerySelector(d, id)
    IN  IF i = 0 \/ ElementEnd(d, i) = 0 THEN d
        ELSE LET component == registry[id]
                 displayMode == IF component.displayMode = "" THEN dflt
                                ELSE component.displayMode
             IN  SubSeq(d, 1, i - 1)
                 \o <<PhOpen(id, d[i].ty, displayMode)>>
                 \o PlaceholderContent(id, component.type, displayMode,
                                       component.preview, component.html)
                 \o SubSeq(d, ElementEnd(d, i), Len(d))

\* Object.keys(registry).forEach(refreshBlotDisplay): keys in insertion order
RECURSIVE RefreshFrom(_, _, _, _)
RefreshFrom(d, registry, dflt, ids) ==
    IF ids = {} THEN d
    ELSE RefreshFrom(RefreshBlotDisplay(d, registry, dflt, Min(ids)),
                     registry, dflt, ids \ {Min(ids)})

RefreshAllBlotDisplays(d, registry, dflt) ==
    RefreshFrom(d, registry, dflt, DOMAIN registry)

----------------------------------------------------------------------------
(* The editor component and its API *)

\* The documents the host hands to setContent and insertContent.
EditorDocs ==
    { <<>>,
      Doc(<<"text">>),
      Doc(<<"text", "table", "text", "/table">>),
      Doc(<<"sdiv", "div", "text", "/div", "/div", "text">>),
      Doc(<<"table", "spre", "text", "/pre", "/table">>) }

\* html and preview values the host passes for single components
ComponentHtmls == { Doc(<<"text">>), Doc(<<"div", "text", "/div">>) }

EditorInit ==
    /\ quillInstance = FALSE
    /\ componentRegistry = EmptyRegistry
    /\ defaultDisplayMode = "preview"
    /\ doc = <<>>
    /\ nextId = 1
    /\ refreshTimers = 0
    /\ lastOp = NoOp
    /\ ret = <<>>
    /\ ops = 0
    /\ eIn = <<>>
    /\ eReg = EmptyRegistry
    /\ eOut = <<>>
    /\ eNew = EmptyRegistry
    /\ eNext = 1
    /\ ePrev = [html |-> <<>>, reg |-> EmptyRegistry]
    /\ ePc = "idle"
    /\ levels = <<>>
    /\ classes = <<>>
    /\ idx = 1
    /\ currentLevel = 0
    /\ currentParent = 0
    /\ parentStack = <<>>
    /\ kids = <<>>
    /\ subs = <<>>
    /\ host = <<>>
    /\ threw = FALSE
    /\ changed = TRUE
    /\ loopStart = 0
    /\ loopPos = 0
    /\ loopDepth = 0
    /\ passes = 0
    /\ events = <<>>
    /\ eventIdCounter = 0
    /\ editorQuill = NewEditor
    /\ pendingCall = NoCall
    /\ recordValue = <<>>
    /\ recordContent = <<>>
    /\ contentPushedToEditors = FALSE
    /\ hasRendered = FALSE
    /\ pushTimers = 0
    /\ emissions = 0
    /\ pushCalls = NoCalls
    /\ editors = [e \in Editors |-> NewEditor]

\* renderedCallback -> initializeQuill, once window.Quill is there
InitializeQuill ==
    /\ ~quillInstance
    /\ quillInstance' = TRUE
    /\ lastOp' = Call("initializeQuill", <<>>, 0, TRUE)
    /\ UNCHANGED <<componentRegistry, defaultDisplayMode, doc, nextId,
                   refreshTimers, ret, ops>>
    /\ UNCHANGED <<engineVars, listVars, pageVars>>

GetContent ==
    /\ ops < MaxOps
    /\ ops' = ops + 1
    /\ ret' = IF quillInstance THEN RestoreComponents(doc, componentRegistry)
              ELSE <<>>
    /\ lastOp' = Call("getContent", <<>>, 0, TRUE)
    /\ UNCHANGED <<quillInstance, componentRegistry, defaultDisplayMode, doc,
                   nextId, refreshTimers>>
    /\ UNCHANGED <<engineVars, listVars, pageVars>>

GetConvertedContent ==
    /\ ops < MaxOps
    /\ ops' = ops + 1
    /\ ret' = IF quillInstance
              THEN ConvertToStandardHtml(
                       RestoreComponents(doc, componentRegistry))
              ELSE <<>>
    /\ lastOp' = Call("getConvertedContent", <<>>, 0, TRUE)
    /\ UNCHANGED <<quillInstance, componentRegistry, defaultDisplayMode, doc,
                   nextId, refreshTimers>>
    /\ UNCHANGED <<engineVars, listVars, pageVars>>

\* The registry extraction starts from in setContent.
SetContentKeepsRegistry(registry) == registry

SetContentRegistry(registry) == EmptyRegistry

SetContent ==
    /\ ops < MaxOps
    /\ ops' = ops + 1
    /\ \E html \in EditorDocs :
        /\ lastOp' = Call("setContent", html, 0, quillInstance)
        /\ IF ~quillInstance
           THEN UNCHANGED <<componentRegistry, doc, nextId, refreshTimers>>
           ELSE LET processed ==
                        ExtractComponents(html,
                            SetContentRegistry(componentRegistry),
                            nextId, defaultDisplayMode)
                IN  /\ componentRegistry' = processed.reg
                    /\ nextId' = processed.next
                    /\ doc' = QuillPaste(processed.html)
                    /\ refreshTimers' = refreshTimers + 1
    /\ refreshTimers < MaxTimers
    /\ UNCHANGED <<quillInstance, defaultDisplayMode, ret>>
    /\ UNCHANGED <<engineVars, listVars, pageVars>>

\* the setTimeout(() => refreshAllBlotDisplays(), 0) of setContent runs
RefreshTimerFires ==
    /\ refreshTimers > 0
    /\ refreshTimers' = refreshTimers - 1
    /\ doc' = RefreshAllBlotDisplays(doc, componentRegistry, defaultDisplayMode)
    /\ lastOp' = Call("refreshAllBlotDisplays", <<>>, 0, TRUE)
    /\ UNCHANGED <<quillInstance, componentRegistry, defaultDisplayMode,
                   nextId, ret, ops>>
    /\ UNCHANGED <<engineVars, listVars, pageVars>>

\* The registry extraction starts from in insertContent: nothing is cleared.
InsertContentClearsRegistry(registry) == EmptyRegistry

InsertContentRegistry(registry) == registry

InsertContent ==
    /\ ops < MaxOps
    /\ ops' = ops + 1
    /\ \E html \in EditorDocs, position \in {"start", "end"} :
        /\ lastOp' = Call("insertContent", html, 0, quillInstance)
        /\ IF ~quillInstance
           THEN UNCHANGED <<componentRegistry, doc, nextId>>
           ELSE LET processed ==
                        ExtractComponents(html,
                            InsertContentRegistry(componentRegistry),
                            nextId, defaultDisplayMode)
                IN  /\ componentRegistry' = processed.reg
                    /\ nextId' = processed.next
                    /\ doc' = IF position = "start"
                              THEN QuillPaste(processed.html) \o doc
                              ELSE doc \o QuillPaste(processed.html)
    /\ UNCHANGED <<quillInstance, defaultDisplayMode, refreshTimers, ret>>
    /\ UNCHANGED <<engineVars, listVars, pageVars>>

SetDefaultDisplayMode ==
    /\ ops < MaxOps
    /\ ops' = ops + 1
    /\ \E mode \in Modes :
        /\ mode # defaultDisplayMode
        /\ defaultDisplayMode' = mode
        /\ lastOp' = Call("setDefaultDisplayMode", <<>>, 0, TRUE)
    /\ UNCHANGED <<quillInstance, componentRegistry, doc, nextId,
                   refreshTimers, ret>>
    /\ UNCHANGED <<engineVars, listVars, pageVars>>

\* The record insertComponent builds from componentData; an omitted field
\* of componentData is "" or <<>>.
NewComponentKeepsType(componentData, dflt) ==
    [type |-> componentData.type,
     html |-> componentData.html,
     preview |-> IF componentData.preview = <<>> THEN componentData.html
                 ELSE componentData.preview,
     displayMode |-> IF componentData.displayMode = "" THEN dflt
                     ELSE componentData.displayMode]

NewComponentNoPreviewDefault(componentData, dflt) ==
    [type |-> IF componentData.type = "" THEN "CUSTOM" ELSE componentData.type,
     html |-> componentData.html,
     preview |-> componentData.preview,
     displayMode |-> IF componentData.displayMode = "" THEN dflt
                     ELSE componentData.displayMode]

NewComponent(componentData, dflt) ==
    [type |-> IF componentData.type = "" THEN "CUSTOM" ELSE componentData.type,
     html |-> componentData.html,
     preview |-> IF componentData.preview = <<>> THEN componentData.html
                 ELSE componentData.preview,
     displayMode |-> IF componentData.displayMode = "" THEN dflt
                     ELSE componentData.displayMode]

\* insertComponent({type, html, preview, displayMode}); there is no
\* selection, so the blot goes to the document end
InsertComponent ==
    /\ ops < MaxOps
    /\ ops' = ops + 1
    /\ \E type \in {"SIGNATURE", ""}, html \in ComponentHtmls \cup {<<>>},
          preview \in {<<>>, Doc(<<"text">>)}, dm \in {"", "render"} :
        LET componentData == [type |-> type, html |-> html,
                              preview |-> preview, displayMode |-> dm]
        IN  IF ~quillInstance
            THEN /\ lastOp' = Call("insertComponent", componentData, 0, FALSE)
                 /\ UNCHANGED <<componentRegistry, doc, nextId>>
            ELSE LET id == nextId
                     component == NewComponent(componentData,
                                               defaultDisplayMode)
                     blot == CreateBlot(id, component.type,
                                        component.displayMode,
                                        component.preview, component.html)
                 IN  /\ nextId' = nextId + 1
                     /\ componentRegistry' =
                           (id :> component) @@ componentRegistry
                     /\ doc' = doc \o blot
                     /\ lastOp' = Call("insertComponent", componentData, id,
                                       TRUE)
    /\ UNCHANGED <<quillInstance, defaultDisplayMode, refreshTimers, ret>>
    /\ UNCHANGED <<engineVars, listVars, pageVars>>

\* What updateComponentDisplay does to the registry, and what it returns;
\* preview <<>> stands for null.
UpdateDisplayCreating(registry, componentId, displayMode, preview) ==
    LET component == IF componentId \in DOMAIN registry
                     THEN registry[componentId]
                     ELSE Component("", <<>>, displayMode)
    IN  [reg |-> (componentId :>
                     [component EXCEPT
                        !.displayMode = displayMode,
                        !.preview = IF preview # <<>> THEN preview ELSE @])
                 @@ registry,
         ok |-> TRUE]

UpdateDisplayAlwaysPreview(registry, componentId, displayMode, preview) ==
    IF componentId \notin DOMAIN registry
    THEN [reg |-> registry, ok |-> FALSE]
    ELSE [reg |-> [registry EXCEPT
                     ![componentId].displayMode = displayMode,
                     ![componentId].preview = preview],
          ok |-> TRUE]

UpdateDisplay(registry, componentId, displayMode, preview) ==
    IF componentId \notin DOMAIN registry
    THEN [reg |-> registry, ok |-> FALSE]
    ELSE [reg |-> [registry EXCEPT
                     ![componentId].displayMode = displayMode,
                     ![componentId].preview =
                         IF preview # <<>> THEN preview ELSE @],
          ok |-> TRUE]

\* updateComponentDisplay(componentId, displayMode, preview = null)
UpdateComponentDisplay ==
    /\ ops < MaxOps
    /\ ops' = ops + 1
    /\ \E id \in 1..nextId, mode \in Modes, preview \in {<<>>, Doc(<<"text">>)} :
        LET r == UpdateDisplay(componentRegistry, id, mode, preview)
        IN  /\ componentRegistry' = r.reg
            /\ doc' = IF r.ok /\ quillInstance
                      THEN RefreshBlotDisplay(doc, r.reg, defaultDisplayMode,
                                              id)
                      ELSE doc
            /\ lastOp' = Call("updateComponentDisplay",
                              [displayMode |-> mode, preview |-> preview],
                              id, r.ok)
    /\ UNCHANGED <<quillInstance, defaultDisplayMode, nextId, refreshTimers,
                   ret>>
    /\ UNCHANGED <<engineVars, listVars, pageVars>>

\* the dialog's save event: handleComponentSave({id, type, html})
HandleComponentSave ==
    /\ ops < MaxOps
    /\ ops' = ops + 1
    /\ \E id \in DOMAIN componentRegistry, html \in ComponentHtmls :
        /\ componentRegistry' = [componentRegistry EXCEPT ![id].html = html]
        /\ lastOp' = Call("handleComponentSave", html, id, TRUE)
    /\ UNCHANGED <<quillInstance, defaultDisplayMode, doc, nextId,
                   refreshTimers, ret>>
    /\ UNCHANGED <<engineVars, listVars, pageVars>>

\* the dialog's delete event: handleComponentDelete({id})
HandleComponentDelete ==
    /\ ops < MaxOps
    /\ ops' = ops + 1
    /\ \E id \in DOMAIN componentRegistry :
        LET i == QuerySelector(doc, id)
        IN  /\ componentRegistry' =
                  [x \in DOMAIN componentRegistry \ {id} |-> componentRegistry[x]]
            /\ doc' = IF i = 0 \/ ElementEnd(doc, i) = 0 THEN doc
                      ELSE SubSeq(doc, 1, i - 1)
                           \o SubSeq(doc, ElementEnd(doc, i) + 1, Len(doc))
            /\ lastOp' = Call("handleComponentDelete", <<>>, id, TRUE)
    /\ UNCHANGED <<quillInstance, defaultDisplayMode, nextId, refreshTimers,
                   ret>>
    /\ UNCHANGED <<engineVars, listVars, pageVars>>

EditorNext ==
    \/ InitializeQuill
    \/ GetContent
    \/ GetConvertedContent
    \/ SetContent
    \/ RefreshTimerFires
    \/ InsertContent
    \/ SetDefaultDisplayMode
    \/ InsertComponent
    \/ UpdateComponentDisplay
    \/ HandleComponentSave
    \/ HandleComponentDelete

----------------------------------------------------------------------------
(* extractStyledDivs, one loop turn at a time.  eOut is `result'; ePc is     *)
(* "while" at the test of the outer loop, "scan" at the test of the inner    *)
(* loop and "returned" after the return statement.                           *)

LoopAlphabet ==
    {Tok(k) : k \in {"text", "div", "sdiv", "/div"}}
    \cup {PhOpen(i, "STYLED_DIV", "preview") : i \in StaleIds}

LoopInit ==
    /\ \E m \in 0..MaxDivLen : eIn \in [1..m -> LoopAlphabet]
    /\ eReg = EmptyRegistry
    /\ eOut = eIn
    /\ eNew = EmptyRegistry
    /\ eNext = FirstFreshId
    /\ ePrev = [html |-> <<>>, reg |-> EmptyRegistry]
    /\ ePc = "while"
    /\ changed = TRUE
    /\ loopStart = 0
    /\ loopPos = 0
    /\ loopDepth = 0
    /\ passes = 0
    /\ quillInstance = FALSE
    /\ componentRegistry = EmptyRegistry
    /\ defaultDisplayMode = "preview"
    /\ doc = <<>>
    /\ nextId = 1
    /\ refreshTimers = 0
    /\ lastOp = NoOp
    /\ ret = <<>>
    /\ ops = 0
    /\ levels = <<>>
    /\ classes = <<>>
    /\ idx = 1
    /\ currentLevel = 0
    /\ currentParent = 0
    /\ parentStack = <<>>
    /\ kids = <<>>
    /\ subs = <<>>
    /\ host = <<>>
    /\ threw = FALSE
    /\ events = <<>>
    /\ eventIdCounter = 0
    /\ editorQuill = NewEditor
    /\ pendingCall = NoCall
    /\ recordValue = <<>>
    /\ recordContent = <<>>
    /\ contentPushedToEditors = FALSE
    /\ hasRendered = FALSE
    /\ pushTimers = 0
    /\ emissions = 0
    /\ pushCalls = NoCalls
    /\ editors = [e \in Editors |-> NewEditor]

\* result.substring(0, startIndex) + placeholder + result.substring(endPos)
SpliceWrapped(result, start, end, placeholder) ==
    SubSeq(result, 1, start - 1)
    \o <<Tok("sdiv")>> \o placeholder \o <<Tok("/div")>>
    \o SubSeq(result, end + 1, Len(result))

Splice(result, start, end, placeholder) ==
    SubSeq(result, 1, start - 1) \o placeholder
    \o SubSeq(result, end + 1, Len(result))

\* while (changed) { changed = false; match = exec(result);
\*                   if (match) { depth = 1; pos = startIndex + length; ..
OuterPass ==
    /\ ePc = "while"
    /\ changed
    /\ changed' = FALSE
    /\ passes' = passes + 1
    /\ LET match == FirstOf(eOut, 1, StyledDivStartKinds)
       IN  IF match = 0
           THEN /\ ePc' = "while"
                /\ UNCHANGED <<loopStart, loopPos, loopDepth>>
           ELSE /\ ePc' = "scan"
                /\ loopStart' = match
                /\ loopDepth' = 1
                /\ loopPos' = match + 1
    /\ UNCHANGED <<eIn, eOut, eReg, eNew, eNext, ePrev>>
    /\ UNCHANGED <<editorVars, listVars, logVars, wrapperVars, evaluatorVars>>

\* one test of while (depth > 0 && pos < result.length) and, when it holds,
\* one run of the loop's body
ScanStep ==
    /\ ePc = "scan"
    /\ LET openIdx == FirstOf(eOut, loopPos, DivOpenKinds)
           closeIdx == FirstOf(eOut, loopPos, DivCloseKinds)
       IN  IF ~(loopDepth > 0 /\ loopPos <= Len(eOut)) \/ closeIdx = 0
           THEN /\ ePc' = "while"
                /\ UNCHANGED <<eOut, eReg, eNew, eNext, changed, loopPos,
                               loopDepth>>
           ELSE IF openIdx # 0 /\ openIdx < closeIdx
           THEN /\ ePc' = "scan"
                /\ loopDepth' = loopDepth + 1
                /\ loopPos' = openIdx + 1
                /\ UNCHANGED <<eOut, eReg, eNew, eNext, changed>>
           ELSE IF loopDepth = 1
           THEN LET fullDiv == SubSeq(eOut, loopStart, closeIdx)
                    st == [html |-> eOut, reg |-> eReg, new |-> eNew,
                           next |-> eNext]
                    r == Register(st, "STYLED_DIV", fullDiv,
                                  defaultDisplayMode)
                    placeholder ==
                        PlaceholderHtml(eNext, "STYLED_DIV",
                                        defaultDisplayMode)
                IN  /\ eOut' = Splice(eOut, loopStart, closeIdx, placeholder)
                    /\ eReg' = r.reg
                    /\ eNew' = r.new
                    /\ eNext' = r.next
                    /\ changed' = TRUE
                    /\ loopDepth' = 0
                    /\ ePc' = "while"
                    /\ UNCHANGED loopPos
           ELSE /\ ePc' = "scan"
                /\ loopDepth' = loopDepth - 1
                /\ loopPos' = closeIdx + 1
                /\ UNCHANGED <<eOut, eReg, eNew, eNext, changed>>
    /\ UNCHANGED <<eIn, ePrev, loopStart, passes>>
    /\ UNCHANGED <<editorVars, listVars, logVars, wrapperVars, evaluatorVars>>

\* while (changed) is false: return result
LoopReturn ==
    /\ ePc = "while"
    /\ ~changed
    /\ ePc' = "returned"
    /\ UNCHANGED <<eIn, eOut, eReg, eNew, eNext, ePrev>>
    /\ UNCHANGED loopVars
    /\ UNCHANGED <<editorVars, listVars, logVars, wrapperVars, evaluatorVars>>

LoopNext ==
    \/ OuterPass
    \/ ScanStep
    \/ LoopReturn

----------------------------------------------------------------------------
(* The event log panel.  An event is modelled by the number N of its id     *)
(* 'evt-N'; its timestamp, editor, type, category and details are not.      *)

maxEvents == 500

LogInit ==
    /\ events = <<>>
    /\ eventIdCounter = 0
    /\ quillInstance = FALSE
    /\ componentRegistry = EmptyRegistry
    /\ defaultDisplayMode = "preview"
    /\ doc = <<>>
    /\ nextId = 1
    /\ refreshTimers = 0
    /\ lastOp = NoOp
    /\ ret = <<>>
    /\ ops = 0
    /\ eIn = <<>>
    /\ eReg = EmptyRegistry
    /\ eOut = <<>>
    /\ eNew = EmptyRegistry
    /\ eNext = 1
    /\ ePrev = [html |-> <<>>, reg |-> EmptyRegistry]
    /\ ePc = "idle"
    /\ levels = <<>>
    /\ classes = <<>>
    /\ idx = 1
    /\ currentLevel = 0
    /\ currentParent = 0
    /\ parentStack = <<>>
    /\ kids = <<>>
    /\ subs = <<>>
    /\ host = <<>>
    /\ threw = FALSE
    /\ changed = TRUE
    /\ loopStart = 0
    /\ loopPos = 0
    /\ loopDepth = 0
    /\ passes = 0
    /\ editorQuill = NewEditor
    /\ pendingCall = NoCall
    /\ recordValue = <<>>
    /\ recordContent = <<>>
    /\ contentPushedToEditors = FALSE
    /\ hasRendered = FALSE
    /\ pushTimers = 0
    /\ emissions = 0
    /\ pushCalls = NoCalls
    /\ editors = [e \in Editors |-> NewEditor]

\* this.events = [event, ...this.events], then the trim to maxEvents
AddEventAtEnd(evts, event) ==
    LET all == evts \o <<event>>
    IN  IF Len(all) > maxEvents THEN SubSeq(all, 1, maxEvents) ELSE all

AddEvent(evts, event) ==
    LET all == <<event>> \o evts
    IN  IF Len(all) > maxEvents THEN SubSeq(all, 1, maxEvents) ELSE all

\* logEvent(eventData) with an eventData object
LogEvent ==
    /\ eventIdCounter < MaxLogged
    /\ eventIdCounter' = eventIdCounter + 1
    /\ events' = AddEvent(events, eventIdCounter + 1)
    /\ UNCHANGED <<editorVars, engineVars, listVars, loopVars, wrapperVars,
                   evaluatorVars>>

ClearLog ==
    /\ events' = <<>>
    /\ UNCHANGED eventIdCounter
    /\ UNCHANGED <<editorVars, engineVars, listVars, loopVars, wrapperVars,
                   evaluatorVars>>

LogNext ==
    \/ LogEvent
    \/ ClearLog

----------------------------------------------------------------------------
(* The Quill wrapper (editorQuill.js).  quillInstance.root.innerHTML is the  *)
(* field root; before setContent has put anything there, the editor is       *)
(* empty.                                                                    *)

\* initializeQuill
QuillInitializeDropsPending(q) ==
    IF q.isLoaded THEN q
    ELSE IF ~q.container THEN [q EXCEPT !.initAttempted = FALSE]
    ELSE [q EXCEPT !.initAttempted = TRUE,
                   !.quillInstance = TRUE,
                   !.isLoaded = TRUE,
                   !.pendingContent = NullHtml]

QuillInitialize(q) ==
    IF q.isLoaded THEN q
    ELSE IF ~q.container THEN [q EXCEPT !.initAttempted = FALSE]
    ELSE [q EXCEPT !.initAttempted = TRUE,
                   !.quillInstance = TRUE,
                   !.isLoaded = TRUE,
                   !.root = IF q.pendingContent # NullHtml
                            THEN q.pendingContent ELSE @,
                   !.pendingContent = NullHtml]

\* setContent(html)
QuillSetContent(q, html) ==
    IF ~q.quillInstance
    THEN [q EXCEPT !.pendingContent = html]
    ELSE [q EXCEPT !.root = IF Falsy(html) THEN <<>> ELSE html]

\* The html the host hands to setContent: strings and null.
WrapperHtmls == EditorDocs \cup {NullHtml}

WrapperInit ==
    /\ editorQuill = NewEditor
    /\ pendingCall = NoCall
    /\ quillInstance = FALSE
    /\ componentRegistry = EmptyRegistry
    /\ defaultDisplayMode = "preview"
    /\ doc = <<>>
    /\ nextId = 1
    /\ refreshTimers = 0
    /\ lastOp = NoOp
    /\ ret = <<>>
    /\ ops = 0
    /\ eIn = <<>>
    /\ eReg = EmptyRegistry
    /\ eOut = <<>>
    /\ eNew = EmptyRegistry
    /\ eNext = 1
    /\ ePrev = [html |-> <<>>, reg |-> EmptyRegistry]
    /\ ePc = "idle"
    /\ levels = <<>>
    /\ classes = <<>>
    /\ idx = 1
    /\ currentLevel = 0
    /\ currentParent = 0
    /\ parentStack = <<>>
    /\ kids = <<>>
    /\ subs = <<>>
    /\ host = <<>>
    /\ threw = FALSE
    /\ changed = TRUE
    /\ loopStart = 0
    /\ loopPos = 0
    /\ loopDepth = 0
    /\ passes = 0
    /\ events = <<>>
    /\ eventIdCounter = 0
    /\ recordValue = <<>>
    /\ recordContent = <<>>
    /\ contentPushedToEditors = FALSE
    /\ hasRendered = FALSE
    /\ pushTimers = 0
    /\ emissions = 0
    /\ pushCalls = NoCalls
    /\ editors = [e \in Editors |-> NewEditor]

\* connectedCallback after its await: the scripts are loaded
WrapperScriptsLoaded ==
    /\ ~editorQuill.scriptsLoaded
    /\ editorQuill' =
          QuillInitialize([editorQuill EXCEPT !.connected = TRUE,
                                              !.scriptsLoaded = TRUE])
    /\ UNCHANGED <<pendingCall, ret>>
    /\ UNCHANGED <<quillInstance, componentRegistry, defaultDisplayMode, doc,
                   nextId, refreshTimers, lastOp, ops>>
    /\ UNCHANGED <<engineVars, listVars, loopVars, logVars, evaluatorVars>>

\* the template renders, which puts .quill-container in it; renderedCallback
WrapperRendered ==
    /\ LET q == [editorQuill EXCEPT !.connected = TRUE, !.container = TRUE]
       IN  editorQuill' = IF q.scriptsLoaded /\ ~q.initAttempted
                          THEN QuillInitialize(q) ELSE q
    /\ UNCHANGED <<pendingCall, ret>>
    /\ UNCHANGED <<quillInstance, componentRegistry, defaultDisplayMode, doc,
                   nextId, refreshTimers, lastOp, ops>>
    /\ UNCHANGED <<engineVars, listVars, loopVars, logVars, evaluatorVars>>

WrapperSetContent ==
    /\ \E html \in WrapperHtmls :
          /\ editorQuill' = QuillSetContent(editorQuill, html)
          /\ pendingCall' =
                IF editorQuill.quillInstance THEN pendingCall
                ELSE [made |-> TRUE, h |-> html,
                      first |-> IF pendingCall.made THEN pendingCall.first
                                ELSE html]
    /\ UNCHANGED ret
    /\ UNCHANGED <<quillInstance, componentRegistry, defaultDisplayMode, doc,
                   nextId, refreshTimers, lastOp, ops>>
    /\ UNCHANGED <<engineVars, listVars, loopVars, logVars, evaluatorVars>>

WrapperGetContent ==
    /\ ret' = IF editorQuill.quillInstance THEN editorQuill.root ELSE <<>>
    /\ UNCHANGED <<editorQuill, pendingCall>>
    /\ UNCHANGED <<quillInstance, componentRegistry, defaultDisplayMode, doc,
                   nextId, refreshTimers, lastOp, ops>>
    /\ UNCHANGED <<engineVars, listVars, loopVars, logVars, evaluatorVars>>

WrapperNext ==
    \/ WrapperScriptsLoaded
    \/ WrapperRendered
    \/ WrapperSetContent
    \/ WrapperGetContent

----------------------------------------------------------------------------
(* The evaluator (richTextEvaluator.js) and the three editors of its         *)
(* template.  The record on the server keeps one Content__c value during a   *)
(* run; every emission of the wire delivers it.  The events the handlers     *)
(* write to the log panel are not modelled here.                             *)

RecordValues ==
    { <<>>, Doc(<<"text">>), Doc(<<"text", "table", "text", "/table">>) }

\* EditorStandard.setContent
StandardSetContent(q, html) ==
    [q EXCEPT !.root = IF Falsy(html) THEN <<>> ELSE html]

\* EditorQuillBlot.setContent, as far as the evaluator sees it: nothing
\* before the instance exists, and the html on the surface after it
QuillBlotSetContent(q, html) ==
    IF ~q.quillInstance THEN [q EXCEPT !.dropped = TRUE]
    ELSE [q EXCEPT !.root = IF Falsy(html) THEN <<>> ELSE html]

\* const editor = this.template.querySelector(selector);
\* if (editor) editor.setContent(this._recordContent)
SetContentOf(eds, name, content) ==
    IF ~eds[name].connected THEN eds
    ELSE [eds EXCEPT ![name] =
             CASE name = "Standard" -> StandardSetContent(@, content)
               [] name = "Quill" -> QuillSetContent(@, content)
               [] name = "QuillBlot" -> QuillBlotSetContent(@, content)]

PushContentToEditor(eds, editorName, content) ==
    IF editorName \notin Editors THEN eds
    ELSE SetContentOf(eds, editorName, content)

HandleEditorEventLogsOnly(eds, editor, eventType, content) == eds

HandleEditorEvent(eds, editor, eventType, content) ==
    IF eventType = "editor-ready" /\ content # <<>>
    THEN PushContentToEditor(eds, editor, content)
    ELSE eds

\* the guard of pushContentToAllEditors
PushGuardContentOnly(pushed, content) == content = <<>>

PushGuard(pushed, content) == pushed \/ content = <<>>

\* the body of pushContentToAllEditors past its guard
PushContentToAllEditors(eds, content) ==
    SetContentOf(SetContentOf(SetContentOf(eds, "Standard", content),
                              "Quill", content),
                 "QuillBlot", content)

EvaluatorInit ==
    /\ recordValue \in RecordValues
    /\ recordContent = <<>>
    /\ contentPushedToEditors = FALSE
    /\ hasRendered = FALSE
    /\ pushTimers = 0
    /\ emissions = 0
    /\ pushCalls = NoCalls
    /\ editors = [e \in Editors |-> NewEditor]
    /\ quillInstance = FALSE
    /\ componentRegistry = EmptyRegistry
    /\ defaultDisplayMode = "preview"
    /\ doc = <<>>
    /\ nextId = 1
    /\ refreshTimers = 0
    /\ lastOp = NoOp
    /\ ret = <<>>
    /\ ops = 0
    /\ eIn = <<>>
    /\ eReg = EmptyRegistry
    /\ eOut = <<>>
    /\ eNew = EmptyRegistry
    /\ eNext = 1
    /\ ePrev = [html |-> <<>>, reg |-> EmptyRegistry]
    /\ ePc = "idle"
    /\ levels = <<>>
    /\ classes = <<>>
    /\ idx = 1
    /\ currentLevel = 0
    /\ currentParent = 0
    /\ parentStack = <<>>
    /\ kids = <<>>
    /\ subs = <<>>
    /\ host = <<>>
    /\ threw = FALSE
    /\ changed = TRUE
    /\ loopStart = 0
    /\ loopPos = 0
    /\ loopDepth = 0
    /\ passes = 0
    /\ events = <<>>
    /\ eventIdCounter = 0
    /\ editorQuill = NewEditor
    /\ pendingCall = NoCall

\* renderedCallback of the evaluator
EvaluatorRendered ==
    /\ IF hasRendered
       THEN UNCHANGED <<hasRendered, pushTimers>>
       ELSE /\ hasRendered' = TRUE
            /\ pushTimers' =
                  IF recordContent # <<>> /\ ~contentPushedToEditors
                  THEN pushTimers + 1 ELSE pushTimers
    /\ UNCHANGED <<recordValue, recordContent, contentPushedToEditors,
                   emissions, pushCalls, editors>>
    /\ UNCHANGED <<editorVars, engineVars, listVars, loopVars, logVars,
                   wrapperVars>>

\* wiredRecord({ data }) or wiredRecord({ error })
WiredRecord ==
    /\ emissions < MaxEmissions
    /\ emissions' = emissions + 1
    /\ \E emitted \in {"data", "error"} :
          IF emitted = "data"
          THEN /\ recordContent' = recordValue
               /\ pushTimers' =
                     IF hasRendered /\ ~contentPushedToEditors
                     THEN pushTimers + 1 ELSE pushTimers
          ELSE UNCHANGED <<recordContent, pushTimers>>
    /\ UNCHANGED <<recordValue, contentPushedToEditors, hasRendered,
                   pushCalls, editors>>
    /\ UNCHANGED <<editorVars, engineVars, listVars, loopVars, logVars,
                   wrapperVars>>

\* a setTimeout(() => this.pushContentToAllEditors(), 100) runs
PushTimerFires ==
    /\ pushTimers > 0
    /\ pushTimers' = pushTimers - 1
    /\ IF PushGuard(contentPushedToEditors, recordContent)
       THEN /\ pushCalls' = [pushCalls EXCEPT !.returned = @ + 1]
            /\ UNCHANGED <<editors, contentPushedToEditors>>
       ELSE /\ pushCalls' = [pushCalls EXCEPT !.ran = @ + 1]
            /\ editors' = PushContentToAllEditors(editors, recordContent)
            /\ contentPushedToEditors' = TRUE
    /\ UNCHANGED <<recordValue, recordContent, hasRendered, emissions>>
    /\ UNCHANGED <<editorVars, engineVars, listVars, loopVars, logVars,
                   wrapperVars>>

\* An editor component is put in the page: its connectedCallback.  The
\* standard editor is ready at once and fires editor-ready, which the
\* evaluator handles before the callback returns.
EditorConnected ==
    /\ \E e \in Editors :
          /\ ~editors[e].connected
          /\ editors' =
                IF e = "Standard"
                THEN HandleEditorEvent(
                         [editors EXCEPT ![e].connected = TRUE,
                                         ![e].quillInstance = TRUE],
                         e, "editor-ready", recordContent)
                ELSE [editors EXCEPT ![e].connected = TRUE]
    /\ UNCHANGED <<recordValue, recordContent, contentPushedToEditors,
                   hasRendered, pushTimers, emissions, pushCalls>>
    /\ UNCHANGED <<editorVars, engineVars, listVars, loopVars, logVars,
                   wrapperVars>>

\* initializeQuill of the Quill or the QuillBlot editor runs to its end, with
\* the scripts loaded and the container rendered; it fires editor-ready,
\* which the evaluator handles before initializeQuill returns.
EditorInitialized ==
    /\ \E e \in {"Quill", "QuillBlot"} :
          /\ editors[e].connected
          /\ ~editors[e].quillInstance
          /\ LET q == [editors[e] EXCEPT !.scriptsLoaded = TRUE,
                                         !.container = TRUE]
                 ready ==
                     IF e = "Quill" THEN QuillInitialize(q)
                     ELSE [q EXCEPT !.quillInstance = TRUE,
                                    !.isLoaded = TRUE]
             IN  editors' = HandleEditorEvent([editors EXCEPT ![e] = ready],
                                              e, "editor-ready",
                                              recordContent)
    /\ UNCHANGED <<recordValue, recordContent, contentPushedToEditors,
                   hasRendered, pushTimers, emissions, pushCalls>>
    /\ UNCHANGED <<editorVars, engineVars, listVars, loopVars, logVars,
                   wrapperVars>>

EvaluatorNext ==
    \/ EvaluatorRendered
    \/ WiredRecord
    \/ PushTimerFires
    \/ EditorConnected
    \/ EditorInitialized

----------------------------------------------------------------------------
(* Specifications.  Each one runs one part of the program; the variables of  *)
(* the other parts keep their initial values.                                *)

\* The editor component driven through its API.
Spec == EditorInit /\ [][EditorNext]_vars

\* extractComponents and restoreComponents applied to input strings.
SpecEngine == EngineInit /\ [][EngineNext]_vars

\* convertIndentedLists applied to flat lists.
SpecLists == ListInit /\ [][ListNext]_vars

\* convertToStandardHtml, extractComponents and getConvertedContent's body
\* applied to editor output and to empty input.
SpecConvert == ConvertInit /\ [][ConvertNext]_vars

\* extractStyledDivs run to its return.  The function runs on one thread
\* with nothing to wait for, so a loop turn that can be taken is taken.
SpecStyledDivs == LoopInit /\ [][LoopNext]_vars /\ WF_vars(LoopNext)

\* The event log panel driven through logEvent and clearLog.
SpecEventLog == LogInit /\ [][LogNext]_vars

\* The Quill wrapper through its lifecycle callbacks and its content API.
SpecEditorQuill == WrapperInit /\ [][WrapperNext]_vars

\* The evaluator and its editors.  A timer that was set fires, and the
\* framework calls renderedCallback once the component has rendered.
SpecEvaluator ==
    /\ EvaluatorInit
    /\ [][EvaluatorNext]_vars
    /\ WF_vars(PushTimerFires)
    /\ WF_vars(EvaluatorRendered)

----------------------------------------------------------------------------
(* Properties of extraction and restoration *)

HasKind(s, kinds) == \E i \in DOMAIN s : s[i].k \in kinds

\* Where the component that opens at token i of s ends (0: no component).
SpanEnd(s, i) ==
    CASE s[i].k \in StyledDivStartKinds -> DepthScan(s, i + 1, 1)
      [] s[i].k \in StyledPreKinds -> FirstOf(s, i + 1, {"/pre"})
      [] s[i].k \in StyledBlockquoteKinds -> FirstOf(s, i + 1, {"/bq"})
      [] s[i].k \in TableKinds -> FirstOf(s, i + 1, {"/table"})
      [] s[i].k \in StyledHrKinds -> i
      [] OTHER -> 0

\* No recognised component starts inside another one.
NotNested(s) ==
    \A i, j \in DOMAIN s :
        (i < j /\ SpanEnd(s, i) # 0 /\ SpanEnd(s, j) # 0) => j > SpanEnd(s, i)

\* Every tag of s is closed in the order the tags were opened (hr is void).
RECURSIVE Balanced(_, _)
Balanced(s, open) ==
    IF s = <<>> THEN open = <<>>
    ELSE LET k == Head(s).k
         IN  IF CloserOf(k) # "" THEN Balanced(Tail(s), <<CloserOf(k)>> \o open)
             ELSE IF k \in {"/div", "/pre", "/bq", "/table"}
                  THEN open # <<>> /\ Head(open) = k
                       /\ Balanced(Tail(s), Tail(open))
                  ELSE Balanced(Tail(s), open)

WellFormed(s) == Balanced(s, <<>>)

\* C1: when the input holds no placeholder markup of its own and none of its
\* recognised components starts inside another, restoring the output of
\* extraction with the registry extraction filled returns the input.
C1_RoundTripNotNested ==
    (ePc = "restored" /\ ~HasKind(eIn, {"ph"}) /\ NotNested(eIn))
        => eOut = eIn

C1_Witness ==
    /\ ePc = "restored"
    /\ eIn = Doc(<<"table", "text", "/table", "table", "text", "/table">>)
    /\ Cardinality(DOMAIN eNew) = 2
    /\ ~HasKind(ePrev.html, {"table"})
    /\ eOut = eIn

\* C2: restoring the output of extraction returns the input for every
\* well-formed input without placeholder markup, components of one category
\* inside components of another included.
C2_RoundTripAll ==
    (ePc = "restored" /\ ~HasKind(eIn, {"ph"}) /\ WellFormed(eIn))
        => eOut = eIn

\* C3: extracting the output of an extraction creates no component and
\* returns the html unchanged.
C3_Idempotent ==
    ePc = "extractedTwice" => (eNew = EmptyRegistry /\ eOut = ePrev.html)

\* The div tags of s are balanced: the depth never drops below 0 and ends at 0.
RECURSIVE DivDepthOk(_, _)
DivDepthOk(s, d) ==
    IF s = <<>> THEN d = 0
    ELSE IF Head(s).k \in DivOpenKinds THEN DivDepthOk(Tail(s), d + 1)
    ELSE IF Head(s).k = "/div" THEN d > 0 /\ DivDepthOk(Tail(s), d - 1)
    ELSE DivDepthOk(Tail(s), d)

\* s is one styled div whose content has balanced div tags.
StyledDivDoc(s) ==
    /\ Len(s) >= 2
    /\ s[1].k = "sdiv"
    /\ s[Len(s)].k = "/div"
    /\ DivDepthOk(SubSeq(s, 2, Len(s) - 1), 0)

\* C4: extracting a styled div whose content has balanced div tags creates
\* exactly one component, a STYLED_DIV whose html is the whole div, and
\* leaves one placeholder.
C4_DepthCorrect ==
    (ePc = "extracted" /\ StyledDivDoc(eIn)) =>
        /\ Cardinality(DOMAIN eNew) = 1
        /\ \A id \in DOMAIN eNew :
              /\ eNew[id].type = "STYLED_DIV"
              /\ eNew[id].html = eIn
              /\ eReg[id] = eNew[id]
              /\ eOut = PlaceholderHtml(id, "STYLED_DIV", defaultDisplayMode)

C4_Witness ==
    /\ ePc = "extracted"
    /\ eIn = Doc(<<"sdiv", "div", "text", "/div", "div", "text", "/div", "/div">>)
    /\ Cardinality(DOMAIN eNew) = 1

\* The placeholders of id x that restoration finds in s: those with a </div>
\* after them that do not lie inside the content of an earlier placeholder.
FoundPlaceholders(s, x) ==
    {i \in DOMAIN s :
        /\ s[i].k = "ph" /\ s[i].id = x
        /\ FirstOf(s, i + 1, {"/div"}) # 0
        /\ ~\E k \in 1..(i - 1) :
              s[k].k = "ph" /\ FirstOf(s, k + 1, {"/div"}) > i}

Occurrences(s, t) == Cardinality({i \in DOMAIN s : s[i] = t})

\* C5: restoring html whose placeholders name an id that is not in the
\* registry puts one missing-component comment naming the id in the place of
\* each such placeholder, and leaves none of them in the output.
C5_MissingMarker ==
    ePc = "restoredInput" =>
        \A x \in StaleIds \ DOMAIN eReg :
            /\ Occurrences(eOut, MissingComment(x))
                  = Cardinality(FoundPlaceholders(eIn, x))
            /\ FoundPlaceholders(eOut, x) = {}

C5_Witness ==
    /\ ePc = "restoredInput"
    /\ eReg = EmptyRegistry
    /\ eIn = <<Tok("text"), PhOpen(1, "TABLE", "preview"), Tok("/div")>>
    /\ eOut = <<Tok("text"), MissingComment(1)>>

----------------------------------------------------------------------------
(* Properties of the editor component *)

ComponentOpenKinds ==
    StyledDivStartKinds \cup StyledPreKinds \cup StyledBlockquoteKinds
    \cup TableKinds \cup StyledHrKinds

\* C6: a setContent(html) that finds the editor initialised leaves in the
\* registry exactly the records of extracting html: no id that was in it
\* before the call, and nothing at all when html holds no component.
C6_SetContentReplacesRegistry ==
    [][(lastOp'.op = "setContent" /\ lastOp'.ok) =>
          /\ componentRegistry' =
                ExtractComponents(lastOp'.arg, EmptyRegistry, nextId,
                                  defaultDisplayMode).new
          /\ DOMAIN componentRegistry' \cap DOMAIN componentRegistry = {}
          /\ (~HasKind(lastOp'.arg, ComponentOpenKinds)
                 => componentRegistry' = EmptyRegistry)]_vars

C6_Witness ==
    /\ lastOp.op = "setContent"
    /\ lastOp.ok
    /\ componentRegistry # EmptyRegistry
    /\ 1 \notin DOMAIN componentRegistry

\* The document d with every placeholder node shown as a badge.
RECURSIVE ShownAsBadges(_)
ShownAsBadges(d) ==
    LET i == FirstOf(d, 1, {"ph"})
    IN  IF i = 0 \/ ElementEnd(d, i) = 0 THEN d
        ELSE SubSeq(d, 1, i - 1)
             \o <<PhOpen(d[i].id, d[i].ty, "badge"), Badge(d[i].id, d[i].ty),
                  Tok("/div")>>
             \o ShownAsBadges(SubSeq(d, ElementEnd(d, i) + 1, Len(d)))

\* C7: what getContent returns does not depend on how the placeholders are
\* displayed: it is what it would be with every placeholder shown as a badge.
C7_DisplayModeIndependent ==
    quillInstance =>
        RestoreComponents(doc, componentRegistry)
            = RestoreComponents(ShownAsBadges(doc), componentRegistry)

----------------------------------------------------------------------------
(* Properties of list renesting *)

Finished == idx > Len(levels)

\* The item whose sublist holds item i; 0 when i is in the original list.
ItemParent(i) ==
    LET l == ParentElement(kids, i) IN IF l = 0 THEN 0 ELSE host[l]

\* The last item before i whose level is k; 0 when there is none.
PrecedingAt(i, k) ==
    LET S == {j \in 1..(i - 1) : levels[j] = k}
    IN  IF S = {} THEN 0 ELSE CHOOSE j \in S : \A m \in S : m <= j

\* The levels a list can have: the first item at level 0, every item at most
\* one level deeper than the item before it.
WellStepped ==
    /\ levels[1] = 0
    /\ \A i \in 2..Len(levels) : levels[i] <= levels[i - 1] + 1

RECURSIVE OrderOfItems(_), OrderOfLists(_)
OrderOfItems(items) ==
    IF items = <<>> THEN <<>>
    ELSE <<Head(items)>> \o OrderOfLists(subs[Head(items)])
         \o OrderOfItems(Tail(items))
OrderOfLists(ls) ==
    IF ls = <<>> THEN <<>>
    ELSE OrderOfItems(kids[Head(ls)]) \o OrderOfLists(Tail(ls))

\* The items in document order.
DocumentOrder == OrderOfItems(kids[0])

\* C8: after conversion, an item of level k >= 1 is in a sublist appended
\* inside the last item before it of level k - 1, and an item of level 0 is
\* in the original list (so A, B, C, D of levels 0, 1, 2, 0 give B inside A,
\* C inside B and D beside A).
C8_Renesting ==
    (Finished /\ WellStepped) =>
        \A i \in DOMAIN levels :
            ItemParent(i) = (IF levels[i] = 0 THEN 0
                             ELSE PrecedingAt(i, levels[i] - 1))

\* C9: conversion keeps the items in document order, and an item without an
\* indent class stays a child of the original list.
C9_OrderKept ==
    (Finished /\ WellStepped) =>
        /\ DocumentOrder = [i \in DOMAIN levels |-> i]
        /\ \A i \in DOMAIN levels : levels[i] = 0 => ParentElement(kids, i) = 0

\* C10: the conversion of a list never throws, whatever the indent levels.
C10_NeverThrows == WellStepped => ~threw

----------------------------------------------------------------------------
(* Properties of the dialect conversion *)

\* The value a lookup table maps className to.
MapValue(map, className) ==
    map[CHOOSE j \in DOMAIN map : map[j][1] = className][2]

MapClasses(map) == {map[j][1] : j \in DOMAIN map}

\* The element of the output that came from element i of the input
Converted(i) == eOut[i]

\* el is a pre that carries the syntax class: a code block.
IsCodeBlock(el) == el.tag = "pre" /\ "ql-syntax" \in el.classList

\* Conversion gave out no inline style for the unrecognised class cls of in:
\* the property cls would set is as it is for the element without cls.
NoStyleFor(cls, in, out) ==
    /\ (cls = "ql-size-tiny"
          /\ in.classList \cap MapClasses(sizeMap) = {} /\ ~IsCodeBlock(in))
        => out.style.fontSize = ""
    /\ (cls = "ql-font-comic"
          /\ in.classList \cap MapClasses(fontMap) = {} /\ ~IsCodeBlock(in))
        => out.style.fontFamily = ""

UnrecognisedVariants == {"ql-size-tiny", "ql-font-comic"}

\* C17: an element carrying a size or font class that the lookup tables do not
\* hold still carries that class after conversion and receives no font-size
\* or font-family style for it.
C17_UnrecognisedUntouched ==
    ePc = "converted" =>
        \A i \in DOMAIN eIn : eIn[i].k = "el" =>
            \A cls \in eIn[i].classList \cap UnrecognisedVariants :
                /\ cls \in Converted(i).classList
                /\ NoStyleFor(cls, eIn[i], Converted(i))

\* C17, as the code has it: such an element receives no font-size or
\* font-family style for the class, and the class itself is removed with the
\* other ql- classes.
C17_UnrecognisedStripped ==
    ePc = "converted" =>
        \A i \in DOMAIN eIn : eIn[i].k = "el" =>
            \A cls \in eIn[i].classList \cap UnrecognisedVariants :
                /\ cls \notin Converted(i).classList
                /\ NoStyleFor(cls, eIn[i], Converted(i))

C17_Witness ==
    /\ ePc = "converted"
    /\ eIn = <<Element("span", {"ql-size-tiny", "note"})>>
    /\ eOut[1].classList = {"note"}
    /\ eOut[1].style = NoStyle

\* C18: after conversion no element has an empty class attribute.
C18_NoEmptyClassAttribute ==
    ePc \in {"converted", "gotConverted"} =>
        \A i \in DOMAIN eOut : eOut[i].k = "el" =>
            (eOut[i].classAttr => eOut[i].classList # {})

\* The style or attribute the recognised class cls maps to is on out.
Mapped(cls, out) ==
    /\ cls \in MapClasses(alignmentMap)
          => out.style.textAlign = MapValue(alignmentMap, cls)
    /\ cls \in MapClasses(sizeMap)
          => out.style.fontSize = MapValue(sizeMap, cls)
    /\ cls \in MapClasses(fontMap)
          => out.style.fontFamily = MapValue(fontMap, cls)
    /\ cls = "ql-direction-rtl" => out.dir = "rtl"
    /\ cls = "ql-syntax"
          => /\ out.style.codeBlock
             /\ out.style.fontSize = "13px"
             /\ out.style.fontFamily
                   = "Monaco, Consolas, \"Courier New\", monospace"

\* The recognised classes of el: those of the lookup tables, the rtl class, and
\* the syntax class when el is a pre.
RecognisedOn(el) ==
    (el.classList \cap (RecognisedClasses \ {"ql-syntax"}))
    \cup (IF IsCodeBlock(el) THEN {"ql-syntax"} ELSE {})

OnePerCategory(el) ==
    /\ Cardinality(el.classList \cap MapClasses(alignmentMap)) <= 1
    /\ Cardinality(el.classList \cap MapClasses(sizeMap)) <= 1
    /\ Cardinality(el.classList \cap MapClasses(fontMap)) <= 1
    /\ IsCodeBlock(el) =>
          el.classList \cap (MapClasses(sizeMap) \cup MapClasses(fontMap)) = {}

C20_EmptyInput ==
    eIn \in {<<>>, NullHtml} =>
        /\ ePc = "extractedGiven" =>
              /\ eOut = <<>>
              /\ eNew = EmptyRegistry
              /\ eReg = ePrev.reg
        /\ ePc \in {"converted", "gotConverted"} => eOut = <<>>

C20_Witness ==
    /\ ePc = "extractedGiven"
    /\ eIn = NullHtml
    /\ eReg # EmptyRegistry
    /\ eOut = <<>>

----------------------------------------------------------------------------
(* Properties of ids, records and the registry's frame *)

TwoSiblingTables == Doc(<<"table", "text", "/table", "table", "text", "/table">>)

ExtractionTypes == {"TABLE", "STYLED_DIV", "BLOCKQUOTE", "HR", "CODE_BLOCK"}

TypeEnumeration ==
    ExtractionTypes
    \cup {"SIGNATURE", "CHOICE_FIELD", "ENTRY_FIELD", "CHART", "CODE", "RAW_HTML"}

\* C12: every record of the registry has a type of the closed enumeration,
\* also a record insertComponent added when the caller gave no type.
C12_TypesInEnumeration ==
    \A id \in DOMAIN componentRegistry :
        componentRegistry[id].type \in TypeEnumeration

\* C12, as the code has it: a record keeps its type; a record extraction
\* creates has one of the five extraction types; a record insertComponent
\* adds has the type the caller gave, and "CUSTOM" when the caller gave none.
C12_TypesAsGiven ==
    [][\A id \in DOMAIN componentRegistry' :
          LET type == componentRegistry'[id].type
          IN  IF id \in DOMAIN componentRegistry
              THEN type = componentRegistry[id].type
              ELSE IF lastOp'.op = "insertComponent"
              THEN type = (IF lastOp'.arg.type = "" THEN "CUSTOM"
                           ELSE lastOp'.arg.type)
              ELSE type \in ExtractionTypes
       ]_vars

C12_Witness ==
    /\ lastOp.op = "insertComponent"
    /\ lastOp.ok
    /\ lastOp.arg.type = ""
    /\ componentRegistry[lastOp.id].type = "CUSTOM"
    /\ \E id \in DOMAIN componentRegistry :
          componentRegistry[id].type = "TABLE"

\* C13: updateComponentDisplay with an id that is not in the registry returns
\* false and leaves the registry and the document as they were.
C13_UnknownIdNoChange ==
    [][(lastOp'.op = "updateComponentDisplay"
          /\ lastOp'.id \notin DOMAIN componentRegistry) =>
          /\ ~lastOp'.ok
          /\ componentRegistry' = componentRegistry
          /\ doc' = doc
       ]_vars

C13_Witness ==
    /\ lastOp.op = "updateComponentDisplay"
    /\ ~lastOp.ok
    /\ quillInstance
    /\ componentRegistry # EmptyRegistry
    /\ HasKind(doc, {"ph"})

\* C14: updateComponentDisplay with an id of the registry returns true and
\* changes only that record's displayMode, to the mode given, and, when a
\* preview is given, its preview; html, type and all other records stay.
C14_DisplayFieldsOnly ==
    [][(lastOp'.op = "updateComponentDisplay"
          /\ lastOp'.id \in DOMAIN componentRegistry) =>
          LET id == lastOp'.id
              was == componentRegistry[id]
              now == componentRegistry'[id]
          IN  /\ lastOp'.ok
              /\ DOMAIN componentRegistry' = DOMAIN componentRegistry
              /\ \A x \in DOMAIN componentRegistry \ {id} :
                    componentRegistry'[x] = componentRegistry[x]
              /\ now.html = was.html
              /\ now.type = was.type
              /\ now.displayMode = lastOp'.arg.displayMode
              /\ now.preview = (IF lastOp'.arg.preview = <<>> THEN was.preview
                                ELSE lastOp'.arg.preview)
       ]_vars

C14_Witness ==
    /\ lastOp.op = "updateComponentDisplay"
    /\ lastOp.ok
    /\ lastOp.arg.preview = <<>>
    /\ Cardinality(DOMAIN componentRegistry) = 2
    /\ componentRegistry[lastOp.id].displayMode = "badge"
    /\ componentRegistry[lastOp.id].preview # <<>>

\* C15: insertComponent on an initialised editor returns an id that was not
\* in the registry and adds one record under it, all other records staying:
\* its html is the html given, its preview the preview given or else the
\* html, its displayMode the mode given or else the default display mode.
C15_InsertComponentRecord ==
    [][(lastOp'.op = "insertComponent" /\ quillInstance) =>
          LET id == lastOp'.id
              given == lastOp'.arg
          IN  /\ lastOp'.ok
              /\ id \notin DOMAIN componentRegistry
              /\ DOMAIN componentRegistry' = DOMAIN componentRegistry \cup {id}
              /\ \A x \in DOMAIN componentRegistry :
                    componentRegistry'[x] = componentRegistry[x]
              /\ componentRegistry'[id].html = given.html
              /\ componentRegistry'[id].preview =
                    (IF given.preview = <<>> THEN given.html ELSE given.preview)
              /\ componentRegistry'[id].displayMode =
                    (IF given.displayMode = "" THEN defaultDisplayMode
                     ELSE given.displayMode)
       ]_vars

C15_Witness ==
    /\ lastOp.op = "insertComponent"
    /\ lastOp.ok
    /\ lastOp.arg.preview = <<>>
    /\ lastOp.arg.displayMode = ""
    /\ lastOp.arg.html = Doc(<<"div", "text", "/div">>)
    /\ defaultDisplayMode = "badge"
    /\ Cardinality(DOMAIN componentRegistry) = 2
    /\ componentRegistry[lastOp.id].preview = lastOp.arg.html
    /\ componentRegistry[lastOp.id].displayMode = "badge"

\* C16: an entry leaves the registry only by a delete of that entry or by a
\* setContent; insertContent keeps every entry as it was and adds exactly the
\* records its extraction creates; getContent, getConvertedContent,
\* insertComponent, setDefaultDisplayMode and the display refresh keep every
\* entry as it was, and updateComponentDisplay and a save remove none.
C16_EntriesPersist ==
    [][/\ (lastOp'.op = "handleComponentDelete") =>
             /\ DOMAIN componentRegistry'
                   = DOMAIN componentRegistry \ {lastOp'.id}
             /\ \A x \in DOMAIN componentRegistry' :
                   componentRegistry'[x] = componentRegistry[x]
       /\ (lastOp'.op \notin {"handleComponentDelete", "setContent"}) =>
             DOMAIN componentRegistry \subseteq DOMAIN componentRegistry'
       /\ (lastOp'.op \in {"insertContent", "getContent", "getConvertedContent",
                           "insertComponent", "setDefaultDisplayMode",
                           "refreshAllBlotDisplays", "initializeQuill"}) =>
             \A x \in DOMAIN componentRegistry :
                 componentRegistry'[x] = componentRegistry[x]
       /\ (lastOp'.op = "insertContent" /\ lastOp'.ok) =>
             LET created == ExtractComponents(lastOp'.arg, EmptyRegistry,
                                              nextId, defaultDisplayMode).new
             IN  /\ DOMAIN componentRegistry'
                       = DOMAIN componentRegistry \cup DOMAIN created
                 /\ DOMAIN componentRegistry \cap DOMAIN created = {}
                 /\ \A x \in DOMAIN created :
                       componentRegistry'[x] = created[x]
       ]_vars

C16_Witness ==
    /\ lastOp.op = "insertContent"
    /\ lastOp.ok
    /\ HasKind(lastOp.arg, ComponentOpenKinds)
    /\ \E x \in DOMAIN componentRegistry :
          componentRegistry[x].type = "SIGNATURE"
    /\ Cardinality(DOMAIN componentRegistry) >= 3

----------------------------------------------------------------------------
(* Properties of the matchers *)

\* The tags the narrower matchers start a component at.
InnerOpenKinds ==
    StyledPreKinds \cup StyledBlockquoteKinds \cup TableKinds
    \cup StyledHrKinds

FirstStyledDiv(s) == FirstOf(s, 1, StyledDivStartKinds)

FirstStyledDivEnd(s) ==
    IF FirstStyledDiv(s) = 0 THEN 0
    ELSE DepthScan(s, FirstStyledDiv(s) + 1, 1)

\* s is text around one depth-balanced styled div that holds a whole table,
\* styled pre, styled blockquote or styled hr.
InsideStyledDiv(s) ==
    /\ FirstStyledDivEnd(s) # 0
    /\ \E j \in (FirstStyledDiv(s) + 1)..(FirstStyledDivEnd(s) - 1) :
          /\ s[j].k \in InnerOpenKinds
          /\ SpanEnd(s, j) # 0
          /\ SpanEnd(s, j) < FirstStyledDivEnd(s)
    /\ \A j \in DOMAIN s :
          (j < FirstStyledDiv(s) \/ j > FirstStyledDivEnd(s))
              => s[j].k = "text"

\* C23: extracting a document whose table, styled pre, styled blockquote or
\* styled hr lies inside a styled div creates exactly one record, a
\* STYLED_DIV whose html is the whole div with the inner element in it, and
\* leaves exactly one placeholder in the output.
C23_InnerNotRegistered ==
    (ePc = "extracted" /\ InsideStyledDiv(eIn)) =>
        /\ Cardinality(DOMAIN eNew) = 1
        /\ \A id \in DOMAIN eNew :
              /\ eNew[id].type = "STYLED_DIV"
              /\ eNew[id].html =
                    SubSeq(eIn, FirstStyledDiv(eIn), FirstStyledDivEnd(eIn))
        /\ Cardinality({j \in DOMAIN eOut : eOut[j].k = "ph"}) = 1

C23_Witness ==
    /\ ePc = "extracted"
    /\ eIn = Doc(<<"sdiv", "table", "/table", "/div">>)
    /\ Cardinality(DOMAIN eNew) = 1
    /\ Len(eOut) = 2

\* An opening table, styled blockquote, styled pre or styled div tag at i
\* with no closing tag that matches it after it.
Unterminated(s, i) ==
    /\ s[i].k \in {"table", "sbq", "spre", "sdiv"}
    /\ SpanEnd(s, i) = 0

\* C24: extraction registers no component that starts at an opening table,
\* styled blockquote, styled pre or styled div tag that has no matching
\* closing tag after it; a document in which every such opening tag is
\* unterminated (and that holds no hr with a style) comes back unmodified,
\* with no new record and the registry as it was.
C24_UnterminatedNoMatch ==
    ePc = "extracted" =>
        /\ \A i \in DOMAIN eIn :
              Unterminated(eIn, i) =>
                  \A id \in DOMAIN eNew :
                      \A j \in i..Len(eIn) :
                          eNew[id].html # SubSeq(eIn, i, j)
        /\ ((\A i \in DOMAIN eIn :
                 /\ eIn[i].k \in {"table", "sbq", "spre", "sdiv"}
                        => Unterminated(eIn, i)
                 /\ eIn[i].k \notin StyledHrKinds \cup {"ebq", "epre"})
               => (eOut = eIn /\ eNew = EmptyRegistry /\ eReg = ePrev.reg))

C24_Witness ==
    /\ ePc = "extracted"
    /\ eIn = Doc(<<"text", "table", "sdiv", "text">>)
    /\ eOut = eIn
    /\ eNew = EmptyRegistry

\* C27: every HR, BLOCKQUOTE or CODE_BLOCK record that extraction creates
\* starts at an opening tag whose style attribute has a non-empty value.
C27_NonEmptyStyleOnly ==
    ePc = "extracted" =>
        \A id \in DOMAIN eNew :
            eNew[id].type \in {"HR", "BLOCKQUOTE", "CODE_BLOCK"}
                => eNew[id].html[1].k \in {"shr", "sbq", "spre"}

----------------------------------------------------------------------------
(* Properties of the deferred display refresh *)

\* C28: when the refresh timer of a setContent(html) fires with no other
\* call in between, what getContent returns is html before the timer fires
\* and html after it.
C28_RefreshIndependent ==
    [][(lastOp.op = "setContent" /\ lastOp.ok
          /\ lastOp'.op = "refreshAllBlotDisplays") =>
          /\ RestoreComponents(doc, componentRegistry) = lastOp.arg
          /\ RestoreComponents(doc', componentRegistry') = lastOp.arg]_vars

----------------------------------------------------------------------------
(* Properties of the styled-div loop *)

\* C25: when extractStyledDivs returns, no styled-div opening tag with a
\* depth-balanced closing tag is left in the result.
C25_AllBalancedExtracted ==
    ePc = "returned" =>
        \A i \in DOMAIN eOut :
            eOut[i].k \in StyledDivStartKinds => DepthScan(eOut, i + 1, 1) = 0

StyledDivTags(s) ==
    Cardinality({i \in DOMAIN s : s[i].k \in StyledDivStartKinds})

\* C26 as the code has it: extractStyledDivs returns on every input.  Every
\* pass but the last replaces one styled div by a placeholder, which takes a
\* styled-div opening tag out of the result and puts none in, so the passes
\* are at most one more than the styled-div opening tags of the input; the
\* depth scan stays within the result and each turn that goes on moves its
\* position forward.
C26_Terminates ==
    /\ [](passes <= StyledDivTags(eIn) + 1)
    /\ [](passes <= Cardinality(DOMAIN eNew) + 1)
    /\ [](ePc = "returned" => passes = Cardinality(DOMAIN eNew) + 1)
    /\ [](ePc = "scan" => loopPos <= Len(eOut) + 1)
    /\ [][(ePc = "scan" /\ ePc' = "scan") => loopPos' > loopPos]_vars
    /\ [][Cardinality(DOMAIN eNew') > Cardinality(DOMAIN eNew) =>
             /\ Cardinality(DOMAIN eNew') = Cardinality(DOMAIN eNew) + 1
             /\ StyledDivTags(eOut') < StyledDivTags(eOut)
             /\ Len(eOut') <= Len(eOut)]_vars
    /\ <>(ePc = "returned")

C26_Witness ==
    /\ ePc = "returned"
    /\ StyledDivTags(eIn) = 2
    /\ Cardinality(DOMAIN eNew) = 2
    /\ passes = 3

\* C26: the passes of the outer loop are at most as many as the styled-div
\* opening tags of the input.
C26_PassesWithinTags == passes <= StyledDivTags(eIn)

----------------------------------------------------------------------------
(* Properties of the event log *)

\* C21: the log never holds more than maxEvents events; they are the events
\* logged last (since the last clearLog), newest first, so events[1] is the
\* latest event; and a logEvent puts its event in front of the events that
\* were there, dropping only the last and oldest of them when the log is
\* full.
C21_NewestFirstAtMost500 ==
    /\ [](Len(events) <= maxEvents)
    /\ [](\A i \in DOMAIN events : events[i] = eventIdCounter - i + 1)
    /\ [][eventIdCounter' # eventIdCounter =>
             /\ events'[1] = eventIdCounter'
             /\ Len(events') = Min({Len(events) + 1, maxEvents})
             /\ \A i \in 2..Len(events') : events'[i] = events[i - 1]]_vars

C21_Witness ==
    /\ Len(events) = maxEvents
    /\ eventIdCounter = maxEvents + 2
    /\ events[1] = eventIdCounter
    /\ events[maxEvents] = 3

----------------------------------------------------------------------------
(* Properties of the Quill wrapper *)

\* What the editor surface holds after setContent(h): null is no content.
Shown(h) == IF h = NullHtml THEN <<>> ELSE h

\* C22: while the instance does not exist, the pending slot holds the html
\* of the latest setContent call; the step that creates the instance leaves
\* the pending slot null and, when setContent was called before it, the
\* editor surface holding the html of the latest such call.
C22_PendingContentApplied ==
    /\ []((~editorQuill.quillInstance /\ pendingCall.made)
             => editorQuill.pendingContent = pendingCall.h)
    /\ [][(~editorQuill.quillInstance /\ editorQuill'.quillInstance) =>
             /\ editorQuill'.pendingContent = NullHtml
             /\ pendingCall.made => editorQuill'.root = Shown(pendingCall.h)
         ]_vars

C22_Witness ==
    /\ editorQuill.quillInstance
    /\ pendingCall.made
    /\ pendingCall.first = Doc(<<"text">>)
    /\ pendingCall.h = Doc(<<"text", "table", "text", "/table">>)
    /\ editorQuill.root = pendingCall.h
    /\ editorQuill.pendingContent = NullHtml

----------------------------------------------------------------------------
(* Properties of the evaluator *)

\* C29: however many push timers were set and in whatever order they fire,
\* the body of pushContentToAllEditors past its guard runs at most once.
C29_PushedAtMostOnce == pushCalls.ran <= 1

C29_Witness ==
    /\ recordValue # <<>>
    /\ pushCalls.ran = 1
    /\ pushCalls.returned = 2
    /\ pushTimers = 0

\* C30: once the record content is loaded and is not empty, every editor
\* whose instance exists comes to hold the record content on its surface:
\* a setContent(record content) reaches it when it can take it.
C30_ReadyEditorsGetContent ==
    \A e \in Editors :
        (editors[e].quillInstance /\ recordContent # <<>>)
            ~> (editors[e].root = recordContent)

C30_Witness ==
    /\ recordContent # <<>>
    /\ contentPushedToEditors
    /\ editors["QuillBlot"].dropped
    /\ editors["QuillBlot"].quillInstance
    /\ editors["QuillBlot"].root = recordContent

====
